---------------------------- MODULE Spec2Model ----------------------------
(***************************************************************************)
(* Verification model of SMAC3's trial execution layer.                    *)
(*                                                                         *)
(*   Part 1  DaskParallelRunner (smac/runner/dask_runner.py): the worker   *)
(*           pool.  One control thread calls submit_run, wait and          *)
(*           get_finished_runs; the dask cluster completes jobs and gains  *)
(*           or loses workers concurrently.                                *)
(*   Part 2  AbstractTargetAlgorithmRunner.run                             *)
(*           (smac/runner/target_algorithm_runner.py): the execution of    *)
(*           one trial, as a function of the objective's behaviour.        *)
(*   Part 3  StoppingCallback.on_tell_end                                  *)
(*           (smac/callback/stopping_callback.py): the decision to stop    *)
(*           the optimization, as a function of what the call finds.       *)
(*   Part 4  RFRImputator.impute                                           *)
(*           (smac/model/random_forest/rfr_imputator.py): the imputation   *)
(*           loop over the predictions of the model.                       *)
(*   Part 5  SingleObjectiveRanking.rank, ParetoRanking.rank and           *)
(*           IncumbentSelection.select (smac/selection): the order of      *)
(*           configurations by objective and the choice of the best.       *)
(*   Part 6  SimpleIntensifier and a successive-halving bracket            *)
(*           (smac/intensification): their sources are not among the       *)
(*           files of src/, they are modelled from the specification and   *)
(*           from tests/test_intensify/test_simple_intensifier.py.         *)
(*   Part 7  Facade._continue and Facade.optimize                          *)
(*           (smac/facade/facade.py): what a facade takes over from an     *)
(*           earlier run and what a call of optimize leaves behind.        *)
(***************************************************************************)
EXTENDS Integers, Sequences, FiniteSets, TLC

(***************************************************************************)
(* Bounds of the model.                                                    *)
(***************************************************************************)
\* Number of jobs submitted in one behaviour.
MaxJobs == 3
\* Largest total number of worker threads the cluster ever offers.
MaxCap == 2
\* Number of distinct TrialKeys (run_info values) the caller may submit.
NumKeys == 2
\* Value of the constructor parameter `patience`, in clock ticks; a blocked
\* call is followed for one tick more.
Patience == 1

Jobs == 1..MaxJobs
TrialKeys == 1..NumKeys
\* The argument slot of submit_run when no call is active.
NoRunInfo == 0

VARIABLES
    \* ---- DaskParallelRunner -------------------------------------------
    futures,     \* self.futures: the in-flight list, a sequence of job ids
    results,     \* self.results: the buffer of collected results
    fdone,       \* the jobs whose future reports done()
    ferr,        \* the done jobs whose future holds an exception
    key,         \* the run_info (TrialKey) of each job the pool or caller holds
    capacity,    \* sum(self.client.nthreads().values())
    pc,          \* where the control thread is
    arg,         \* run_info of the submit_run call in progress
    nsubmitted,  \* number of client.submit calls made so far
    err,         \* the exception the last pool call raised, or "none"
    log,         \* warnings logged by the pool call in progress / last made
    returned,    \* return value of get_finished_runs, until the next pool call
    delivered,   \* per job: how often get_finished_runs has returned it
    lastCheck,   \* what the last _workers_available() call saw
    shrunk,      \* history: has the capacity ever decreased
    waited,      \* clock ticks spent in the current blocking wait / sleep
    \* ---- AbstractTargetAlgorithmRunner.run ----------------------------
    trial,       \* the inputs of one run() call
    outcome,     \* what run() did with them
    \* ---- StoppingCallback.on_tell_end ---------------------------------
    tell,        \* the callback's parameters and what one call finds in smbo
    verdict,     \* what on_tell_end did with them
    \* ---- RFRImputator.impute ------------------------------------------
    imp,         \* the inputs, the loop state and the result of one call
    \* ---- smac.selection ----------------------------------------------
    sel,         \* the objectives given to rank / select and what they return
    \* ---- intensifiers -------------------------------------------------
    ints,        \* the state of one intensifier and its last answer
    \* ---- Facade ------------------------------------------------------
    fac          \* what the facade finds on disk, holds in memory and did

poolVars == <<futures, results, fdone, ferr, key, capacity, pc, arg,
              nsubmitted, err, log, returned, delivered, lastCheck, shrunk,
              waited>>
runVars == <<trial, outcome>>
stopVars == <<tell, verdict>>
restVars == <<imp, sel, ints, fac>>
vars == <<futures, results, fdone, ferr, key, capacity, pc, arg, nsubmitted,
          err, log, returned, delivered, lastCheck, shrunk, waited,
          trial, outcome, tell, verdict, imp, sel, ints, fac>>

(***************************************************************************)
(* Sequence helpers.                                                       *)
(***************************************************************************)
Range(s) == {s[i] : i \in DOMAIN s}

Count(s, x) == Cardinality({i \in DOMAIN s : s[i] = x})


(***************************************************************************)
(* Part 1: DaskParallelRunner.                                             *)
(***************************************************************************)
\* The warnings the pool logs.
W_NoWorkers == "No workers are available"
W_MoreJobs == "More running jobs than resources available"

\* Mutant of workers_available: the comparison admits a full pool.
workers_available_le(n, cap) == n <= cap

\* _workers_available(): len(self.futures) < total_compute_power
workers_available(n, cap) == n < cap

\* The record _workers_available() leaves behind: what it saw and answered.
CheckOf(n, cap) == [n |-> n, cap |-> cap, free |-> workers_available(n, cap)]

\* Mutant of more_jobs_than_resources: the warning comes one job late.
more_jobs_than_resources_late(n, cap) == n > cap + 1

\* Condition of the warning in _extract_completed_runs_from_futures.
more_jobs_than_resources(n, cap) == n > cap

\* Mutant of done_futures: every future is collected, done or not.
done_futures_all(fs, d) == fs

\* done_futures = [f for f in self.futures if f.done()]
done_futures(fs, d) == SelectSeq(fs, LAMBDA j : j \in d)

\* Mutants of remaining_futures: the collected futures are not removed; the
\* whole list is cleared.
remaining_futures_keep(fs, d) == fs
remaining_futures_clear(fs, d) == <<>>

\* self.futures after `self.futures.remove(future)` for every done future.
remaining_futures(fs, d) == SelectSeq(fs, LAMBDA j : j \notin d)

\* The exception future.result() raises in the control thread when the job
\* of the future ended with an exception.
E_Job == "exception of the job"

\* The futures the loop of lines 212-214 gets through: future.result() raises
\* at the first done future that holds an exception, before its removal.
RECURSIVE collected_before_error(_, _)
collected_before_error(ds, e) ==
    IF ds = <<>> \/ Head(ds) \in e THEN <<>>
    ELSE <<Head(ds)>> \o collected_before_error(Tail(ds), e)

extract_collected == collected_before_error(done_futures(futures, fdone), ferr)

\* Mutant of extract_results: the buffer is overwritten, not appended to.
extract_results_overwrite == extract_collected

\* _extract_completed_runs_from_futures: its effects on self.results, on
\* self.futures and on the log, and whether it raises.
extract_results == results \o extract_collected
extract_futures == remaining_futures(futures, Range(extract_collected))
extract_raises == Range(done_futures(futures, fdone)) \cap ferr # {}
extract_warnings ==
    IF more_jobs_than_resources(Len(futures), capacity) THEN {W_MoreJobs} ELSE {}

\* results_list of get_finished_runs: self.results popped from its end until
\* it is empty.
\* Mutant of pop_all: the buffer is returned in the order it was filled.
pop_all_in_order(buf) == buf

RECURSIVE pop_all(_)
pop_all(buf) ==
    IF buf = <<>> THEN <<>>
    ELSE <<buf[Len(buf)]>> \o pop_all(SubSeq(buf, 1, Len(buf) - 1))

\* dask's wait(fs, return_when="FIRST_COMPLETED") returns: some future of fs
\* is done, or fs is empty.
first_completed(fs, d) == fs = <<>> \/ Range(fs) \cap d # {}

\* The run_infos still held by the pool or by its caller when a new pool call
\* starts: those of the jobs in `live`; the list returned by the previous
\* get_finished_runs call is gone by then.
live_keys(live) == [j \in Jobs |-> IF j \in live THEN key[j] ELSE NoRunInfo]

\* The state after DaskParallelRunner.__init__; no run() call is in progress.
Init ==
    /\ fac = [phase |-> "none"]
    /\ futures = <<>>
    /\ results = <<>>
    /\ fdone = {}
    /\ ferr = {}
    /\ key = [j \in Jobs |-> NoRunInfo]
    /\ capacity \in 0..MaxCap
    /\ pc = "idle"
    /\ arg = NoRunInfo
    /\ nsubmitted = 0
    /\ err = "none"
    /\ log = {}
    /\ returned = <<>>
    /\ delivered = [j \in Jobs |-> 0]
    /\ lastCheck = CheckOf(0, 0)
    /\ shrunk = FALSE
    /\ waited = 0
    /\ trial = [phase |-> "none"]
    /\ outcome = [kind |-> "none"]
    /\ tell = [phase |-> "none"]
    /\ verdict = [kind |-> "none"]
    /\ imp = [phase |-> "none"]
    /\ sel = [phase |-> "none"]
    /\ ints = [phase |-> "none"]

\* submit_run, line 153: the first capacity check; without a free slot the
\* call blocks in wait(self.futures, FIRST_COMPLETED).
submit_run(k) ==
    /\ pc = "idle"
    /\ nsubmitted < MaxJobs
    /\ arg' = k
    /\ err' = "none"
    /\ log' = {}
    /\ lastCheck' = CheckOf(Len(futures), capacity)
    /\ pc' = IF workers_available(Len(futures), capacity)
             THEN "sub_check2" ELSE "sub_wait"
    /\ waited' = 0
    /\ returned' = <<>>
    /\ key' = live_keys(Range(futures) \cup Range(results))
    /\ UNCHANGED runVars
    /\ UNCHANGED stopVars
    /\ UNCHANGED restVars
    /\ UNCHANGED ferr
    /\ UNCHANGED <<futures, results, fdone, capacity, nsubmitted, delivered,
                   shrunk>>

\* submit_run, lines 154-156: wait() returns and the completed runs are
\* moved to self.results; an exception of future.result() ends the call.
submit_run_wait_returns ==
    /\ pc = "sub_wait"
    /\ first_completed(futures, fdone)
    /\ results' = extract_results
    /\ futures' = extract_futures
    /\ log' = log \cup extract_warnings
    /\ IF extract_raises
       THEN /\ pc' = "idle"
            /\ err' = E_Job
            /\ arg' = NoRunInfo
       ELSE /\ pc' = "sub_check2"
            /\ err' = err
            /\ arg' = arg
    /\ waited' = 0
    /\ UNCHANGED runVars
    /\ UNCHANGED stopVars
    /\ UNCHANGED restVars
    /\ UNCHANGED ferr
    /\ UNCHANGED <<fdone, key, capacity, nsubmitted, returned, delivered,
                   lastCheck, shrunk>>

\* submit_run, lines 159-161: the second capacity check; without a free slot
\* the call warns and sleeps for `patience`.
submit_run_check ==
    /\ pc = "sub_check2"
    /\ lastCheck' = CheckOf(Len(futures), capacity)
    /\ IF workers_available(Len(futures), capacity)
       THEN /\ pc' = "sub_append"
            /\ log' = log
       ELSE /\ pc' = "sub_sleep"
            /\ log' = log \cup {W_NoWorkers}
    /\ waited' = 0
    /\ UNCHANGED runVars
    /\ UNCHANGED stopVars
    /\ UNCHANGED restVars
    /\ UNCHANGED ferr
    /\ UNCHANGED <<futures, results, fdone, key, capacity, arg, nsubmitted,
                   err, returned, delivered, shrunk>>

\* Mutant of submit_run_after_sleep: the check after the sleep is missing.
submit_run_after_sleep_unchecked ==
    /\ pc = "sub_sleep"
    /\ waited = Patience
    /\ pc' = "sub_append"
    /\ waited' = 0
    /\ UNCHANGED runVars
    /\ UNCHANGED stopVars
    /\ UNCHANGED restVars
    /\ UNCHANGED ferr
    /\ UNCHANGED <<futures, results, fdone, key, capacity, arg, nsubmitted,
                   err, log, returned, delivered, lastCheck, shrunk>>

\* submit_run, lines 162-167: after the sleep the third capacity check;
\* without a free slot the call raises ValueError.
submit_run_after_sleep ==
    /\ pc = "sub_sleep"
    /\ waited = Patience
    /\ lastCheck' = CheckOf(Len(futures), capacity)
    /\ IF workers_available(Len(futures), capacity)
       THEN /\ pc' = "sub_append"
            /\ err' = err
            /\ arg' = arg
       ELSE /\ pc' = "idle"
            /\ err' = "ValueError"
            /\ arg' = NoRunInfo
    /\ waited' = 0
    /\ UNCHANGED runVars
    /\ UNCHANGED stopVars
    /\ UNCHANGED restVars
    /\ UNCHANGED ferr
    /\ UNCHANGED <<futures, results, fdone, key, capacity, nsubmitted, log,
                   returned, delivered, shrunk>>

\* submit_run, line 172: self.futures.append(self.client.submit(...,
\* pure=False)): a new future whatever the run_info.
submit_run_append ==
    /\ pc = "sub_append"
    /\ nsubmitted' = nsubmitted + 1
    /\ futures' = Append(futures, nsubmitted + 1)
    /\ key' = [key EXCEPT ![nsubmitted + 1] = arg]
    /\ arg' = NoRunInfo
    /\ pc' = "idle"
    /\ UNCHANGED runVars
    /\ UNCHANGED stopVars
    /\ UNCHANGED restVars
    /\ UNCHANGED ferr
    /\ UNCHANGED <<results, fdone, capacity, err, log, returned, delivered,
                   lastCheck, shrunk, waited>>

\* get_finished_runs: collect the completed runs, then empty self.results
\* into the returned list; an exception of future.result() ends the call
\* before anything is returned.
get_finished_runs ==
    /\ pc = "idle"
    /\ log' = extract_warnings
    /\ futures' = extract_futures
    /\ IF extract_raises
       THEN /\ err' = E_Job
            /\ returned' = <<>>
            /\ results' = extract_results
       ELSE /\ err' = "none"
            /\ returned' = pop_all(extract_results)
            /\ results' = <<>>
    /\ delivered' = [j \in Jobs |-> delivered[j] + Count(returned', j)]
    /\ key' = live_keys(Range(futures) \cup Range(results))
    /\ UNCHANGED runVars
    /\ UNCHANGED stopVars
    /\ UNCHANGED restVars
    /\ UNCHANGED ferr
    /\ UNCHANGED <<fdone, capacity, pc, arg, nsubmitted, lastCheck, shrunk,
                   waited>>

\* wait(): with futures in flight, block until one of them is done.
wait ==
    /\ pc = "idle"
    /\ err' = "none"
    /\ log' = {}
    /\ pc' = IF futures # <<>> THEN "wait_blocked" ELSE "idle"
    /\ waited' = 0
    /\ returned' = <<>>
    /\ key' = live_keys(Range(futures) \cup Range(results))
    /\ UNCHANGED runVars
    /\ UNCHANGED stopVars
    /\ UNCHANGED restVars
    /\ UNCHANGED ferr
    /\ UNCHANGED <<futures, results, fdone, capacity, arg, nsubmitted,
                   delivered, lastCheck, shrunk>>

\* wait(): dask's wait returns.
wait_returns ==
    /\ pc = "wait_blocked"
    /\ first_completed(futures, fdone)
    /\ pc' = "idle"
    /\ waited' = 0
    /\ UNCHANGED runVars
    /\ UNCHANGED stopVars
    /\ UNCHANGED restVars
    /\ UNCHANGED ferr
    /\ UNCHANGED <<futures, results, fdone, key, capacity, arg, nsubmitted,
                   err, log, returned, delivered, lastCheck, shrunk>>

\* pending_runs(): len(self.futures) > 0
pending_runs == Len(futures) > 0

\* Time passes while the control thread is blocked in dask's wait and no
\* future of the list is done: the call has no timeout.
tick_blocked ==
    /\ pc \in {"sub_wait", "wait_blocked"}
    /\ ~first_completed(futures, fdone)
    /\ waited <= Patience
    /\ waited' = waited + 1
    /\ UNCHANGED runVars
    /\ UNCHANGED stopVars
    /\ UNCHANGED restVars
    /\ UNCHANGED ferr
    /\ UNCHANGED <<futures, results, fdone, key, capacity, pc, arg,
                   nsubmitted, err, log, returned, delivered, lastCheck,
                   shrunk>>

\* Time passes in time.sleep(self.patience).
tick_sleep ==
    /\ pc = "sub_sleep"
    /\ waited < Patience
    /\ waited' = waited + 1
    /\ UNCHANGED runVars
    /\ UNCHANGED stopVars
    /\ UNCHANGED restVars
    /\ UNCHANGED ferr
    /\ UNCHANGED <<futures, results, fdone, key, capacity, pc, arg,
                   nsubmitted, err, log, returned, delivered, lastCheck,
                   shrunk>>

\* The cluster: a worker finishes the job of a future with a result.
job_completes(j) ==
    /\ j \in Range(futures)
    /\ j \notin fdone
    /\ fdone' = fdone \cup {j}
    /\ UNCHANGED runVars
    /\ UNCHANGED stopVars
    /\ UNCHANGED restVars
    /\ UNCHANGED ferr
    /\ UNCHANGED <<futures, results, key, capacity, pc, arg, nsubmitted, err,
                   log, returned, delivered, lastCheck, shrunk, waited>>

\* The cluster: workers join or die, client.nthreads() changes.
capacity_changes(c) ==
    /\ c # capacity
    /\ capacity' = c
    /\ shrunk' = (shrunk \/ c < capacity)
    /\ UNCHANGED runVars
    /\ UNCHANGED stopVars
    /\ UNCHANGED restVars
    /\ UNCHANGED ferr
    /\ UNCHANGED <<futures, results, fdone, key, pc, arg, nsubmitted, err,
                   log, returned, delivered, lastCheck, waited>>

PoolNext ==
    \/ \E k \in TrialKeys : submit_run(k)
    \/ submit_run_wait_returns
    \/ submit_run_check
    \/ submit_run_after_sleep
    \/ submit_run_append
    \/ get_finished_runs
    \/ wait
    \/ wait_returns
    \/ tick_blocked
    \/ tick_sleep
    \/ \E j \in Jobs : job_completes(j)
    \/ \E c \in 0..MaxCap : capacity_changes(c)

Spec == Init /\ [][PoolNext]_vars

\* The cluster: the job of a future ends with an exception (the submitted
\* callable raised on the worker, or dask gave the job up); the future is
\* done() and its result() will raise.
job_fails(j) ==
    /\ j \in Range(futures)
    /\ j \notin fdone
    /\ fdone' = fdone \cup {j}
    /\ ferr' = ferr \cup {j}
    /\ UNCHANGED runVars
    /\ UNCHANGED stopVars
    /\ UNCHANGED restVars
    /\ UNCHANGED <<futures, results, key, capacity, pc, arg, nsubmitted, err,
                   log, returned, delivered, lastCheck, shrunk, waited>>

\* The pool with jobs that may end with an exception.
FailNext ==
    \/ PoolNext
    \/ \E j \in Jobs : job_fails(j)

FailSpec == Init /\ [][FailNext]_vars

(***************************************************************************)
(* Properties of the pool.                                                 *)
(***************************************************************************)
\* The jobs of the in-flight list that are done.
DoneInFlight == Range(futures) \cap fdone

\* The number of results get_finished_runs has returned so far.
RECURSIVE SumDelivered(_)
SumDelivered(n) == IF n = 0 THEN 0 ELSE delivered[n] + SumDelivered(n - 1)
finished == SumDelivered(MaxJobs)

\* C1: submit_run adds a job to the in-flight list only if its last capacity
\* check saw fewer in-flight jobs than worker capacity; so, as long as the
\* capacity has never shrunk, the in-flight jobs never exceed the capacity.
C1_InFlightWithinCapacity ==
    /\ [](~shrunk => Len(futures) <= capacity)
    /\ [][Len(futures') > Len(futures) =>
            /\ lastCheck.n = Len(futures)
            /\ lastCheck.n < lastCheck.cap]_vars

\* C1 witness: the pool is full at its largest capacity, which never shrank,
\* and a further submit_run is blocked waiting for a completion.
C1_Witness ==
    /\ ~shrunk
    /\ capacity = MaxCap
    /\ Len(futures) = capacity
    /\ pc = "sub_wait"
    /\ arg # NoRunInfo

\* C2 (as claimed): a call blocked in the wait for a completion does not stay
\* blocked once the patience has elapsed without a completed job: it raises.
C2_BlockedAtMostPatience ==
    pc \in {"sub_wait", "wait_blocked"} => waited <= Patience

\* C3: when the sleep of submit_run ends and still no slot is free, the call
\* raises ValueError and adds nothing; the in-flight list grows only on the
\* path on which a capacity check saw a free slot, and never with an error.
C3_RaiseWithoutFreeSlot ==
    /\ [][pc = "sub_sleep" /\ pc' # "sub_sleep" /\ Len(futures) >= capacity =>
            /\ err' = "ValueError"
            /\ pc' = "idle"
            /\ futures' = futures
            /\ nsubmitted' = nsubmitted]_vars
    /\ [][Len(futures') > Len(futures) =>
            /\ pc = "sub_append"
            /\ lastCheck.free
            /\ err' = "none"]_vars

\* C3 witness: submit_run has raised ValueError with a full pool, after
\* warning that no workers are available.
C3_Witness ==
    /\ err = "ValueError"
    /\ pc = "idle"
    /\ W_NoWorkers \in log
    /\ futures # <<>>
    /\ Len(futures) >= capacity

\* C4: a get_finished_runs call made while the capacity is below the number
\* of in-flight jobs logs the warning, raises nothing and returns every
\* completed job: those of the buffer and those done in flight.
C4_DeficitWarnsAndDelivers ==
    [][get_finished_runs /\ Len(futures) > capacity =>
            /\ W_MoreJobs \in log'
            /\ err' = "none"
            /\ pc' = "idle"
            /\ Range(returned') = Range(results) \cup DoneInFlight]_vars

\* C4 witness: after a worker died, a call has warned and returned a result
\* while the pool is still over capacity.
C4_Witness ==
    /\ shrunk
    /\ W_MoreJobs \in log
    /\ W_NoWorkers \notin log
    /\ err = "none"
    /\ pc = "idle"
    /\ returned # <<>>
    /\ Len(futures) > capacity

\* C5: get_finished_runs does not block: in one step it returns exactly the
\* buffered results and the jobs done at the call, each once, empties the
\* buffer and leaves the unfinished jobs in flight, in their order.
C5_GetFinishedRunsNonBlocking ==
    [][get_finished_runs =>
            /\ pc' = "idle"
            /\ Range(returned') = Range(results) \cup DoneInFlight
            /\ Len(returned') = Len(results) + Cardinality(DoneInFlight)
            /\ results' = <<>>
            /\ futures' = SelectSeq(futures, LAMBDA j : j \notin fdone)
            /\ Range(futures') \cap Range(returned') = {}]_vars

\* C5 witness: a call has returned results and has left an unfinished job in
\* the in-flight list.
C5_Witness ==
    /\ pc = "idle"
    /\ returned # <<>>
    /\ results = <<>>
    /\ futures # <<>>
    /\ DoneInFlight = {}

\* C6: every accepted job is in exactly one of: the in-flight list, the
\* results buffer, delivered (once); a job not yet accepted is in none.
C6_ExactlyOnce ==
    \A j \in Jobs :
        Count(futures, j) + Count(results, j) + delivered[j]
            = IF j <= nsubmitted THEN 1 ELSE 0

\* C6 witness: one job in flight, one in the buffer and one delivered.
C6_Witness ==
    /\ Len(futures) = 1
    /\ Len(results) = 1
    /\ finished = 1

\* C7: the results delivered never outnumber the jobs accepted; with nothing
\* in flight and the buffer drained, the two numbers are equal.
C7_FinishedAtMostSubmitted ==
    /\ finished <= nsubmitted
    /\ (futures = <<>> /\ results = <<>> => finished = nsubmitted)

\* C7 witness: all jobs of the run were accepted, some of their results went
\* through the buffer, and all were delivered.
C7_Witness ==
    /\ nsubmitted = MaxJobs
    /\ futures = <<>>
    /\ results = <<>>
    /\ finished = MaxJobs
    /\ Len(returned) >= 2

\* C8 (as claimed): the in-flight list never holds two jobs of one TrialKey.
C8_NoDuplicateKeyInFlight ==
    \A i, j \in DOMAIN futures :
        i # j => key[futures[i]] # key[futures[j]]

\* C9: a job leaves the in-flight list only when it is done.
C9_OnlyDoneJobsLeave ==
    [][\A j \in Range(futures) : j \notin Range(futures') => j \in fdone]_vars

\* C9 witness: a job has left the in-flight list while an unfinished one,
\* submitted before the collection, is still in it.
C9_Witness ==
    /\ Len(futures) >= 1
    /\ DoneInFlight = {}
    /\ returned # <<>>
    /\ \E i \in DOMAIN returned : \E j \in Range(futures) : j < returned[i]

(***************************************************************************)
(* Part 2: AbstractTargetAlgorithmRunner.run.                              *)
(*                                                                         *)
(* A cost value is a record [t, v, keys]: t is its Python type ("float",   *)
(* "int", "list", "dict" or "none"), v the numbers of a scalar (one) or of *)
(* a list, keys the objectives a dict has an entry for.                    *)
(***************************************************************************)
\* Largest number of declared objectives, len(self.multi_objectives).
MaxObjectives == 2

\* smac.constants.MAXINT, the default cost_for_crash is float(MAXINT).
MAXINT == 2147483647

Scalar(t, x) == [t |-> t, v |-> <<x>>, keys |-> {}]
List(xs) == [t |-> "list", v |-> xs, keys |-> {}]
Dict(ks) == [t |-> "dict", v |-> <<>>, keys |-> ks]
None == [t |-> "none", v |-> <<>>, keys |-> {}]

\* The value a returned dict holds for objective i.
DictValue(i) == 10 + i

\* The values an objective returns in the model: scalars, None, lists of up
\* to MaxObjectives + 1 numbers, dicts over the objectives.
ReturnedCosts ==
    {Scalar("float", 1), Scalar("int", 1), None}
        \cup {List([i \in 1..n |-> i]) : n \in 0..(MaxObjectives + 1)}
        \cup {Dict(ks) : ks \in SUBSET (1..MaxObjectives)}

\* cost_for_crash: a float, or one float per objective.
CrashCosts(nobj) ==
    {Scalar("float", MAXINT), List([i \in 1..nobj |-> MAXINT])}

\* The calls of run() in the model.  beh is what the objective does: it
\* returns rval (as (rval, info) when `tuple`), raises an exception of its
\* own, or exceeds the wall-time or the memory limit that is configured.
Trials ==
    {t \in [phase : {"ready"},
            wall : BOOLEAN, mem : BOOLEAN,
            nobj : 1..MaxObjectives,
            crash : UNION {CrashCosts(n) : n \in 1..MaxObjectives},
            beh : {"returns", "raises", "timeout", "memout"},
            rval : ReturnedCosts,
            tuple : BOOLEAN] :
        /\ t.crash \in CrashCosts(t.nobj)
        /\ t.beh = "timeout" => t.wall
        /\ t.beh = "memout" => t.mem
        /\ t.beh # "returns" => t.rval = None /\ ~t.tuple}

\* np.asarray(cost).squeeze().tolist()
squeeze_tolist(c) ==
    IF c.t = "list" /\ Len(c.v) = 1 THEN Scalar("float", c.v[1]) ELSE c

\* What run() gives back: a returned tuple, or an exception it raises.
Returned(status, cost, runtime, info) ==
    [kind |-> "return", status |-> status, cost |-> cost,
     runtime |-> runtime, info |-> info, exc |-> "none"]
Raised(exc) ==
    [kind |-> "raise", status |-> "none", cost |-> None,
     runtime |-> "none", info |-> {}, exc |-> exc]

\* use_pynisher, line 149.
use_pynisher(t) == t.mem \/ t.wall

\* Lines 185-190 and 211-216: `result` and `additional_run_info` of rval.
result_of(t) == t.rval
additional_run_info_of(t) == IF t.tuple THEN {"user"} ELSE {}

\* Lines 168-203, the path with pynisher.  Whatever is raised inside the
\* `with pynisher.limit(...)` block, pynisher's timeout and memory-limit
\* exceptions included, is caught at line 174.  After a normal return line
\* 193 reads `obj`, a name that is bound nowhere in run(): NameError.
run_with_pynisher(t) ==
    IF t.beh \in {"raises", "timeout", "memout"}
    THEN [done |-> TRUE,
          out |-> Returned("CRASHED", squeeze_tolist(t.crash), "zero",
                           {"traceback", "error"})]
    ELSE [done |-> TRUE, out |-> Raised("NameError")]

\* Lines 205-225, the path without limits: status, cost and
\* additional_run_info when the sanity checks start.
run_without_pynisher(t) ==
    IF t.beh = "returns"
    THEN [done |-> FALSE, status |-> "SUCCESS", cost |-> result_of(t),
          info |-> additional_run_info_of(t)]
    ELSE [done |-> FALSE, status |-> "CRASHED", cost |-> t.crash,
          info |-> {}]

\* Lines 228-247, the sanity checks for more than one objective: the cost
\* after them, or the RuntimeError they raise.
multi_objective_check(cost, nobj) ==
    LET ordered == IF cost.t = "dict"
                   THEN List([i \in 1..nobj |-> DictValue(i)])
                   ELSE cost
    IN  IF nobj <= 1 THEN [ok |-> TRUE, cost |-> cost]
        ELSE IF cost.t = "dict" /\ ~((1..nobj) \subseteq cost.keys)
             THEN [ok |-> FALSE, cost |-> cost]
        ELSE IF ordered.t = "list" /\ Len(ordered.v) # nobj
             THEN [ok |-> FALSE, cost |-> cost]
        ELSE IF ordered.t = "float"
             THEN [ok |-> FALSE, cost |-> cost]
        ELSE [ok |-> TRUE, cost |-> ordered]

\* Lines 249-255: a None cost or a crash gives CRASHED with cost_for_crash.
finish(t, status, cost, info) ==
    IF cost.t = "none" \/ status = "CRASHED"
    THEN Returned("CRASHED", squeeze_tolist(t.crash), "measured", info)
    ELSE Returned(status, squeeze_tolist(cost), "measured", info)

\* AbstractTargetAlgorithmRunner.run
run(t) ==
    LET first == IF use_pynisher(t) THEN run_with_pynisher(t)
                 ELSE run_without_pynisher(t)
    IN  IF first.done THEN first.out
        ELSE LET chk == multi_objective_check(first.cost, t.nobj)
             IN  IF ~chk.ok THEN Raised("RuntimeError")
                 ELSE finish(t, first.status, chk.cost, first.info)

\* One call of run() on some trial; the pool is not used.
RunInit ==
    /\ fac = [phase |-> "none"]
    /\ futures = <<>>
    /\ results = <<>>
    /\ fdone = {}
    /\ ferr = {}
    /\ key = [j \in Jobs |-> NoRunInfo]
    /\ capacity = 0
    /\ pc = "idle"
    /\ arg = NoRunInfo
    /\ nsubmitted = 0
    /\ err = "none"
    /\ log = {}
    /\ returned = <<>>
    /\ delivered = [j \in Jobs |-> 0]
    /\ lastCheck = CheckOf(0, 0)
    /\ shrunk = FALSE
    /\ waited = 0
    /\ trial \in Trials
    /\ outcome = [kind |-> "none"]
    /\ tell = [phase |-> "none"]
    /\ verdict = [kind |-> "none"]
    /\ imp = [phase |-> "none"]
    /\ sel = [phase |-> "none"]
    /\ ints = [phase |-> "none"]

call_run ==
    /\ trial.phase = "ready"
    /\ outcome' = run(trial)
    /\ trial' = [trial EXCEPT !.phase = "done"]
    /\ UNCHANGED poolVars
    /\ UNCHANGED stopVars
    /\ UNCHANGED restVars

RunNext == call_run

RunSpec == RunInit /\ [][RunNext]_vars

(***************************************************************************)
(* Properties of run().                                                    *)
(***************************************************************************)
\* The trials whose objective returns a cost of the declared shape: a float,
\* or with several objectives one number per objective.
WellFormedReturn(t) ==
    /\ t.beh = "returns"
    /\ IF t.nobj = 1 THEN t.rval.t = "float"
       ELSE \/ t.rval.t = "list" /\ Len(t.rval.v) = t.nobj
            \/ t.rval.t = "dict" /\ t.rval.keys = 1..t.nobj

\* C10 (as claimed): run returns TIMEOUT when the objective exceeds the
\* wall-time limit, MEMOUT when it exceeds the memory limit, CRASHED when it
\* raises another exception, and SUCCESS with the returned cost when it
\* returns one, with and without limits configured.  Stated for the trials
\* with one objective and, when the objective returns, a float cost.
C10_StatusMapping ==
    trial.phase = "done" /\ trial.nobj = 1 =>
        /\ trial.beh = "timeout" =>
               outcome.kind = "return" /\ outcome.status = "TIMEOUT"
        /\ trial.beh = "memout" =>
               outcome.kind = "return" /\ outcome.status = "MEMOUT"
        /\ trial.beh = "raises" =>
               outcome.kind = "return" /\ outcome.status = "CRASHED"
        /\ WellFormedReturn(trial) =>
               /\ outcome.kind = "return"
               /\ outcome.status = "SUCCESS"
               /\ outcome.cost = trial.rval

\* C11 (as claimed): a CRASHED result caused by an exception of the
\* objective carries the exception message and the stack trace in
\* additional_info, with resource limits and without.
C11_CrashCarriesTraceback ==
    /\ trial.phase = "done"
    /\ trial.beh = "raises"
    /\ outcome.kind = "return"
    /\ outcome.status = "CRASHED"
    => {"traceback", "error"} \subseteq outcome.info

\* C12 (as claimed): a result with status CRASHED, TIMEOUT or MEMOUT has the
\* crash cost as its cost (as np.squeeze leaves it), and an objective that
\* returns None, here with one objective declared, is reported as
\* CRASHED with the crash cost.
C12_CrashCost ==
    trial.phase = "done" =>
        /\ outcome.kind = "return"
           /\ outcome.status \in {"CRASHED", "TIMEOUT", "MEMOUT"}
           => outcome.cost = squeeze_tolist(trial.crash)
        /\ trial.beh = "returns" /\ trial.rval = None /\ trial.nobj = 1
           => /\ outcome.kind = "return"
              /\ outcome.status = "CRASHED"
              /\ outcome.cost = squeeze_tolist(trial.crash)

\* The returned costs the checks of lines 228-247 reject for nobj > 1
\* declared objectives: a list of another length (line 243), a dict that
\* lacks an objective (line 237), a float (line 246).  An int is not a float
\* and passes.
WrongShape(c, nobj) ==
    \/ c.t = "list" /\ Len(c.v) # nobj
    \/ c.t = "dict" /\ ~((1..nobj) \subseteq c.keys)
    \/ c.t = "float"

\* C13 (as claimed): with more than one objective declared, a returned cost
\* of the wrong arity or shape gives a CRASHED result; run neither raises
\* nor passes the cost on.  Stated for the calls without resource limits;
\* the wrong shapes are the ones the checks reject and the single int.
C13_WrongShapeIsCrashed ==
    /\ trial.phase = "done"
    /\ ~use_pynisher(trial)
    /\ trial.nobj > 1
    /\ trial.beh = "returns"
    /\ WrongShape(trial.rval, trial.nobj) \/ trial.rval.t = "int"
    => outcome.kind = "return" /\ outcome.status = "CRASHED"

\* C14 (as claimed): run never raises because of the trial: whatever the
\* objective does, run returns a result, and CRASHED when the objective
\* raised.  Stated for the objectives that raise, without resource limits.
C14_RunNeverRaises ==
    /\ trial.phase = "done"
    /\ ~use_pynisher(trial)
    /\ trial.beh = "raises"
    => outcome.kind = "return" /\ outcome.status = "CRASHED"

\* C15 (as claimed): the exception of a job that raised on the worker is
\* never raised in the control thread by a pool call, and the failed job is
\* gone from the in-flight list once a pool call has collected the completed
\* runs.
C15_FailureNotReraised ==
    /\ err # E_Job
    /\ pc = "idle" /\ returned # <<>> => Range(futures) \cap ferr = {}

(***************************************************************************)
(* Part 3: StoppingCallback.on_tell_end.                                   *)
(*                                                                         *)
(* One call of on_tell_end is a function of the callback's parameters and  *)
(* of what the call reads from smbo: the counters of the run history, the  *)
(* budgets of the reported trial, of the model and of the incumbent's      *)
(* trial, the state of the model, and the bounds compute_min_lcb_ucb       *)
(* returns.  The asserts of lines 130 and 167 are taken to hold: the       *)
(* intensifier is a SuccessiveHalving and a model exists.  Costs, bounds,  *)
(* errors and epsilon are floats that are whole multiples of 2^-13 (about  *)
(* 1.22e-4), written as the multiple: on these the subtractions and        *)
(* comparisons of lines 192 and 202 are exact in floating point.           *)
(***************************************************************************)
\* Largest number of trials submitted when on_tell_end is called.
MaxTrials == 3
\* Value of the constructor parameter wait_iterations.
WaitIterations == 2

\* Values of the constructor parameter epsilon: 2^-13 and 2^-12.
Epsilons == {1, 2}
\* Values of the statistical error, of min_ucb and of min_lcb; the large ones
\* are 1.0 and 2.5, 5.0, 3.0.
Errors == {1, 2, 3, 8192, 20480}
MinUcbs == {3, 4, 40960}
MinLcbs == {1, 2, 24576}
\* The error slot of a call that finds no statistical error.
NoError == 0
\* upper_bound_estimation_rate is a multiple of 1/RateUnit, so that
\* rate * num_data is exact in floating point; its default is 0.5.
RateUnit == 4
DefaultRate == 2

\* The calls on_tell_end receives.  on_tell_end runs at the end of tell, so
\* one trial at least is finished; the trials at the maximal budget and the
\* trials of the incumbent are among the finished ones.
Tells ==
    {t \in [phase : {"ready"},
            epsilon : Epsilons,
            do_not_trigger : BOOLEAN,
            highest_fidelity_only : BOOLEAN,
            rate : {DefaultRate},
            error_from : {"threshold", "field", "nowhere"},
            error : Errors \cup {NoError},
            submitted : 1..MaxTrials,
            finished : 1..MaxTrials,
            at_max_budget : 0..MaxTrials,
            info_at_max : BOOLEAN,
            trained_on_max : BOOLEAN,
            incumbent_trials : 0..2,
            incumbent_at_max : BOOLEAN,
            fitted : BOOLEAN] :
        /\ t.finished <= t.submitted
        /\ t.at_max_budget <= t.finished
        /\ t.incumbent_trials <= t.finished
        /\ t.info_at_max => t.at_max_budget >= 1
        /\ t.incumbent_at_max => t.incumbent_trials >= 1 /\ t.at_max_budget >= 1
        /\ (t.error = NoError) = (t.error_from = "nowhere")}

Max(a, b) == IF a >= b THEN a ELSE b
Min(a, b) == IF a <= b THEN a ELSE b
Abs(a) == IF a >= 0 THEN a ELSE 0 - a

\* What a call of on_tell_end does: it returns a bool (True: continue) or
\* raises; `log` holds what the logging callbacks were told.
Answer(value, told) == [kind |-> "return", value |-> value, exc |-> "none", log |-> told]
Raises(exc) == [kind |-> "raise", value |-> TRUE, exc |-> exc, log |-> {}]

\* Line 121: the optimization is too young.
before_wait_iterations(submitted) == submitted < WaitIterations

\* Mutant of not_on_max_budget: one of the two budgets suffices.
not_on_max_budget_both(info_at_max, trained_on_max) ==
    ~info_at_max /\ ~trained_on_max

\* Line 132: info.budget != max_budget or _model_trained_on_budget != max_budget
not_on_max_budget(info_at_max, trained_on_max) ==
    ~info_at_max \/ ~trained_on_max

\* get_configs_for_budget, lines 272-275, by the number n of trials at the
\* budget: int(rate * n), at least 1, of the n sorted trials are returned.
amount_selected_configs(rate_num, rate_den, n) ==
    Max(1, (rate_num * n) \div rate_den)
len_configs_for_budget(rate_num, rate_den, n) ==
    Min(n, amount_selected_configs(rate_num, rate_den, n))

\* num_data, lines 170-181: the configs of the run history, or those
\* evaluated at the maximal budget (get_configs_for_budget with rate 1).
num_data(t) ==
    IF t.highest_fidelity_only
    THEN len_configs_for_budget(1, 1, t.at_max_budget)
    ELSE t.finished

\* Mutant of py_round: the fraction is cut off, as int() does.
py_round_down(a, b) == a \div b

\* Python's round(a / b) for b > 0: the nearest integer, a tie going to the
\* even one.
py_round(a, b) ==
    LET q == a \div b
        r == a % b
    IN IF 2 * r < b THEN q
       ELSE IF 2 * r > b THEN q + 1
       ELSE IF q % 2 = 0 THEN q ELSE q + 1

\* Lines 181-186: configs[: max(round(rate * num_data), 1)].  A config is
\* named by its place in `configs`, which is in ascending order of cost.
upper_bound_configs(rate, n) ==
    SubSeq([i \in 1..n |-> i], 1, Min(n, Max(py_round(rate * n, RateUnit), 1)))

\* Mutant of continue_optimization: the epsilon clause is missing.
continue_optimization_no_epsilon(regret, error, epsilon) == regret >= error

\* Lines 201-203: regret >= error or abs(error - regret) < epsilon
continue_optimization(regret, error, epsilon) ==
    regret >= error \/ Abs(error - regret) < epsilon

\* Mutant of returned_value: do_not_trigger is not looked at.
returned_value_triggering(do_not_trigger, continue) == continue

\* Lines 226-229: the value returned after the regret test.
returned_value(do_not_trigger, continue) ==
    IF do_not_trigger THEN TRUE ELSE continue

\* Mutant of told_triggered: the callbacks are told what the call returns.
told_triggered_as_returned(do_not_trigger, continue) ==
    ~returned_value(do_not_trigger, continue)

\* Lines 207-215: the `triggered` argument of callback.log is
\* `not continue_optimization`; do_not_trigger is read after it, line 226.
told_triggered(do_not_trigger, continue) == ~continue

\* Lines 181-229: the regret test with the bounds compute_min_lcb_ucb
\* returned, the report to the logging callbacks and the returned value;
\* `configs` are the configs compute_min_lcb_ucb was given for min_ucb.
regret_test(t, min_lcb, min_ucb) ==
    LET regret == min_ucb - min_lcb
        continue == continue_optimization(regret, t.error, t.epsilon)
    IN Answer(returned_value(t.do_not_trigger, continue),
              {[min_ucb |-> min_ucb, min_lcb |-> min_lcb, regret |-> regret,
                error |-> t.error,
                triggered |-> told_triggered(t.do_not_trigger, continue),
                configs |-> upper_bound_configs(t.rate, num_data(t))]})

\* on_tell_end, lines 116-233.
on_tell_end_of(t, min_lcb, min_ucb) ==
    IF before_wait_iterations(t.submitted) THEN Answer(TRUE, {})
    ELSE IF /\ t.highest_fidelity_only
            /\ not_on_max_budget(t.info_at_max, t.trained_on_max)
         THEN Answer(TRUE, {})
    ELSE IF t.incumbent_trials = 0 THEN Answer(TRUE, {})
    ELSE IF t.incumbent_trials > 1 THEN Raises("ValueError")
    ELSE IF t.highest_fidelity_only /\ ~t.incumbent_at_max THEN Answer(TRUE, {})
    ELSE IF t.error_from = "nowhere" THEN Raises("KeyError")
    ELSE IF ~t.fitted THEN Answer(TRUE, {})
    ELSE IF t.highest_fidelity_only /\ num_data(t) < WaitIterations
         THEN Answer(TRUE, {})
    ELSE regret_test(t, min_lcb, min_ucb)

\* The state before a call of on_tell_end; the pool is idle and no run() call
\* is in progress.
StopInit ==
    /\ fac = [phase |-> "none"]
    /\ futures = <<>>
    /\ results = <<>>
    /\ fdone = {}
    /\ ferr = {}
    /\ key = [j \in Jobs |-> NoRunInfo]
    /\ capacity = 0
    /\ pc = "idle"
    /\ arg = NoRunInfo
    /\ nsubmitted = 0
    /\ err = "none"
    /\ log = {}
    /\ returned = <<>>
    /\ delivered = [j \in Jobs |-> 0]
    /\ lastCheck = CheckOf(0, 0)
    /\ shrunk = FALSE
    /\ waited = 0
    /\ trial = [phase |-> "none"]
    /\ outcome = [kind |-> "none"]
    /\ tell \in Tells
    /\ verdict = [kind |-> "none"]
    /\ imp = [phase |-> "none"]
    /\ sel = [phase |-> "none"]
    /\ ints = [phase |-> "none"]

\* The call; compute_min_lcb_ucb returns what the acquisition functions give.
on_tell_end ==
    /\ tell.phase = "ready"
    /\ \E min_lcb \in MinLcbs, min_ucb \in MinUcbs :
           verdict' = on_tell_end_of(tell, min_lcb, min_ucb)
    /\ tell' = [tell EXCEPT !.phase = "done"]
    /\ UNCHANGED poolVars
    /\ UNCHANGED runVars
    /\ UNCHANGED restVars

StopNext == on_tell_end

StopSpec == StopInit /\ [][StopNext]_vars

\* Largest number of configs in the run history of a call that reaches the
\* regret test.
MaxConfigs == 6
\* Values of upper_bound_estimation_rate, in units of 1/RateUnit.
Rates == {0, 1, 2, 3, 4, 6}

\* The calls that reach the regret test, for every rate: every trial ran at
\* the maximal budget and the statistical error is given as the threshold.
RateTells ==
    {t \in [phase : {"ready"},
            epsilon : Epsilons,
            do_not_trigger : BOOLEAN,
            highest_fidelity_only : BOOLEAN,
            rate : Rates,
            error_from : {"threshold"},
            error : Errors,
            submitted : WaitIterations..MaxConfigs,
            finished : WaitIterations..MaxConfigs,
            at_max_budget : WaitIterations..MaxConfigs,
            info_at_max : {TRUE},
            trained_on_max : {TRUE},
            incumbent_trials : {1},
            incumbent_at_max : {TRUE},
            fitted : {TRUE}] :
        /\ t.finished = t.submitted
        /\ t.at_max_budget = t.finished}

\* The state before a call of on_tell_end that will reach the regret test.
RateInit ==
    /\ fac = [phase |-> "none"]
    /\ futures = <<>>
    /\ results = <<>>
    /\ fdone = {}
    /\ ferr = {}
    /\ key = [j \in Jobs |-> NoRunInfo]
    /\ capacity = 0
    /\ pc = "idle"
    /\ arg = NoRunInfo
    /\ nsubmitted = 0
    /\ err = "none"
    /\ log = {}
    /\ returned = <<>>
    /\ delivered = [j \in Jobs |-> 0]
    /\ lastCheck = CheckOf(0, 0)
    /\ shrunk = FALSE
    /\ waited = 0
    /\ trial = [phase |-> "none"]
    /\ outcome = [kind |-> "none"]
    /\ tell \in RateTells
    /\ verdict = [kind |-> "none"]
    /\ imp = [phase |-> "none"]
    /\ sel = [phase |-> "none"]
    /\ ints = [phase |-> "none"]

RateSpec == RateInit /\ [][StopNext]_vars

(***************************************************************************)
(* Properties of on_tell_end.                                              *)
(***************************************************************************)
\* The call has returned and its answer is to stop the optimization.
Stops == tell.phase = "done" /\ verdict.kind = "return" /\ verdict.value = FALSE

\* C16: when the call reaches the regret test and do_not_trigger is off, it
\* answers stop exactly when regret = min_ucb - min_lcb is smaller than the
\* statistical error by at least epsilon; with regret >= error, or within
\* epsilon of it, the answer is to continue.
C16_StopIffRegretBelowError ==
    tell.phase = "done" /\ verdict.kind = "return" /\ ~tell.do_not_trigger =>
        \A r \in verdict.log :
            /\ r.regret = r.min_ucb - r.min_lcb
            /\ r.error = tell.error
            /\ verdict.value = FALSE <=>
                   /\ r.regret < r.error
                   /\ r.error - r.regret >= tell.epsilon

\* C16 witness: min_ucb = 5.0, min_lcb = 3.0, error 2.5 and epsilon 2^-13: the
\* call stops the optimization.
C16_Witness ==
    /\ Stops
    /\ ~tell.do_not_trigger
    /\ tell.epsilon = 1
    /\ \E r \in verdict.log :
           r.min_ucb = 40960 /\ r.min_lcb = 24576 /\ r.error = 20480

\* C17 (as claimed): on_tell_end never answers stop while fewer than
\* wait_iterations trials are finished, however many are submitted.
C17_NoStopBeforeWaitIterations ==
    tell.phase = "done" /\ tell.finished < WaitIterations => ~Stops

\* C18 (as claimed): when the model is not fitted, on_tell_end returns True
\* and raises nothing, whatever the run history and the incumbent's trials.
C18_UnfittedModelDefers ==
    tell.phase = "done" /\ ~tell.fitted =>
        verdict.kind = "return" /\ verdict.value = TRUE

\* C19: with do_not_trigger set, on_tell_end never returns False.
C19_DoNotTriggerNeverStops ==
    tell.phase = "done" /\ tell.do_not_trigger => ~Stops

\* C19 witness: do_not_trigger is set, the regret test triggered and the
\* call returned True.
C19_Witness ==
    /\ tell.phase = "done"
    /\ tell.do_not_trigger
    /\ verdict.kind = "return"
    /\ verdict.value = TRUE
    /\ \E r \in verdict.log : r.triggered

\* C20: with highest_fidelity_only set, on_tell_end answers stop only if the
\* reported trial ran at the maximal budget, the model was last trained on
\* the maximal budget, the incumbent's trial is at the maximal budget and at
\* least wait_iterations trials were evaluated at the maximal budget.
C20_HighestFidelityGates ==
    Stops /\ tell.highest_fidelity_only =>
        /\ tell.info_at_max
        /\ tell.trained_on_max
        /\ tell.incumbent_at_max
        /\ tell.at_max_budget >= WaitIterations

\* C20 witness: a call with highest_fidelity_only set stops the optimization
\* with exactly wait_iterations trials at the maximal budget.
C20_Witness ==
    /\ Stops
    /\ tell.highest_fidelity_only
    /\ tell.at_max_budget = WaitIterations

\* r is Python's round(a / b): no integer is nearer, and of two nearest the
\* even one is taken.
IsRounded(r, a, b) ==
    /\ 2 * Abs(r * b - a) <= b
    /\ 2 * Abs(r * b - a) = b => r % 2 = 0

\* C21: over n configs in ascending order of cost, min_ucb is computed over
\* the first max(round(rate * n), 1) of them, all n if that is more: the
\* cheapest ones, at least one and, for a rate in [0, 1], at most n.
C21_UpperBoundOverCheapest ==
    tell.phase = "done" /\ verdict.kind = "return" =>
        \A l \in verdict.log :
            LET n == IF tell.highest_fidelity_only
                     THEN tell.at_max_budget ELSE tell.finished
                k == Len(l.configs)
            IN /\ l.configs = [i \in 1..k |-> i]
               /\ k >= 1
               /\ \E r \in 0..(2 * n) :
                      /\ IsRounded(r, tell.rate * n, RateUnit)
                      /\ k = Min(n, Max(r, 1))
                      /\ tell.rate <= RateUnit => k = Max(r, 1)

\* C21 witness: rate 0.5 and 5 configs: round(2.5) = 2 configs are used.
C21_Witness ==
    /\ tell.phase = "done"
    /\ verdict.kind = "return"
    /\ tell.rate = 2
    /\ tell.finished = 5
    /\ \E l \in verdict.log : l.configs = <<1, 2>>

(***************************************************************************)
(* Part 4: RFRImputator.impute.                                            *)
(*                                                                         *)
(* One call of impute, round by round.  Running times are positive        *)
(* integers.  The model predicts any mean, NaN included.  scipy's          *)
(* truncnorm.stats is a library call: impute is followed for whatever it   *)
(* returns, a value below censored_y, between censored_y and threshold or  *)
(* above threshold, or a value that is not finite (NaN); with a NaN mean   *)
(* its arguments are NaN and so is its result.  NaN behaves as in numpy:   *)
(* it propagates through np.max, np.abs and np.mean, and every comparison  *)
(* with it is False.  The inputs have censored_y <= threshold and are      *)
(* finite.                                                                 *)
(***************************************************************************)
\* Largest number of censored points of a call.
MaxPoints == 1
\* Largest value of the constructor parameter max_iter.
MaxIter == 3
\* Largest censored running time; it is the threshold.
MaxCensored == 3

Threshold == MaxCensored
\* Values of algorithm_walltime_limit.
Cutoffs == {Threshold - 1, Threshold}
\* Finite values of y_mean: below every censored value, within the bounds,
\* above the threshold.
Means == {0, Threshold - 1, Threshold + 1}
\* change_threshold is a multiple of 1/ChangeUnit.
ChangeUnit == 2
ChangeThresholds == {0, 1, 2}
\* A value that is not finite.
NaN == -1

isfinite(x) == x # NaN

\* The calls of impute: censored_y of 0..MaxPoints points and the
\* constructor parameters.
Imputations ==
    {c \in [censored_y : UNION {[1..n -> 1..MaxCensored] : n \in 0..MaxPoints},
            threshold : {Threshold},
            algorithm_walltime_limit : Cutoffs,
            max_iter : 0..MaxIter,
            change_threshold : ChangeThresholds] : TRUE}

\* truncnorm.stats(a, b, loc, scale, moments="m") of lines 138-144 for one
\* point with the bounds lo = censored_y and hi = threshold: what the
\* library returns is not decided by impute, so any value is taken, NaN or
\* a positive number up to one above hi, whether below lo, within the
\* bounds or above hi.
truncnorm_stats(lo, hi) == {NaN} \cup 1..(hi + 1)

\* What one round yields for one point: a non-finite truncated mean with
\* any predicted mean, or a finite one (the predicted mean is then finite
\* and not read again: one value stands for all).
Predictions ==
    [raw : {NaN}, y_mean : Means \cup {NaN}] \cup
    [raw : 1..(Threshold + 1), y_mean : {Threshold - 1}]

\* np.max of two values: NaN if one of them is.
np_max(a, b) == IF isfinite(a) /\ isfinite(b) THEN Max(a, b) ELSE NaN

\* Mutant of fill_nonfinite: non-finite values are left in place.
fill_nonfinite_skipped(raw, censored_y, y_mean) == raw

\* Lines 148-155: imputed_y[nans] = np.max([censored_y[nans], y_mean[nans]])
fill_nonfinite(raw, censored_y, y_mean) ==
    [i \in DOMAIN raw |->
        IF isfinite(raw[i]) THEN raw[i] ELSE np_max(censored_y[i], y_mean[i])]

\* Fractions num / den with den > 0, and their order; Frac(NaN, 1) is NaN,
\* which is above nothing and which nothing is above.
Frac(n, d) == [num |-> n, den |-> d]
frac_add(a, b) ==
    IF isfinite(a.num) /\ isfinite(b.num)
    THEN Frac(a.num * b.den + b.num * a.den, a.den * b.den)
    ELSE Frac(NaN, 1)
frac_gt(a, b) ==
    /\ isfinite(a.num)
    /\ isfinite(b.num)
    /\ a.num * b.den > b.num * a.den

\* Line 162: np.mean(np.abs(imputed_y - y) / y) over the censored points, y
\* being the imputed values of the round before.
RECURSIVE sum_relative_change(_, _, _)
sum_relative_change(imputed_y, y, n) ==
    IF n = 0 THEN Frac(0, 1)
    ELSE frac_add(sum_relative_change(imputed_y, y, n - 1),
                  IF isfinite(imputed_y[n]) /\ isfinite(y[n])
                  THEN Frac(Abs(imputed_y[n] - y[n]), y[n])
                  ELSE Frac(NaN, 1))
relative_change(imputed_y, y) ==
    LET total == sum_relative_change(imputed_y, y, Len(y))
    IN IF isfinite(total.num)
       THEN Frac(total.num, total.den * Len(y))
       ELSE Frac(NaN, 1)

\* Line 166: imputed_y[imputed_y >= self.threshold] = self.threshold; NaN
\* is not >= threshold and stays.
lower_to_threshold(imputed_y, threshold) ==
    [i \in DOMAIN imputed_y |->
        IF isfinite(imputed_y[i]) /\ imputed_y[i] >= threshold
        THEN threshold ELSE imputed_y[i]]

\* Mutant of train_again: the change is not looked at.
train_again_always(change, change_threshold, it) == TRUE

\* Mutant of train_again: the first round trains only on a change.
train_again_on_change(change, change_threshold, it) ==
    frac_gt(change, Frac(change_threshold, ChangeUnit))

\* Line 173: change > self.change_threshold or it == 1
train_again(change, change_threshold, it) ==
    frac_gt(change, Frac(change_threshold, ChangeUnit)) \/ it = 1

\* Mutant of par10: a value equal to algorithm_walltime_limit is kept.
par10_above(imputed_y, algorithm_walltime_limit, threshold) ==
    [i \in DOMAIN imputed_y |->
        IF isfinite(imputed_y[i]) /\ imputed_y[i] > algorithm_walltime_limit
        THEN threshold ELSE imputed_y[i]]

\* Line 186: imputed_y[imputed_y >= algorithm_walltime_limit] = threshold;
\* NaN is not >= algorithm_walltime_limit and stays (lines 188-189 log it).
par10(imputed_y, algorithm_walltime_limit, threshold) ==
    [i \in DOMAIN imputed_y |->
        IF isfinite(imputed_y[i]) /\ imputed_y[i] >= algorithm_walltime_limit
        THEN threshold ELSE imputed_y[i]]

\* The state at the call of impute: `it = 1`, `change = 0` (lines 119-120),
\* nothing predicted yet.  The pool is idle and no other call is in progress.
ImputeInit ==
    /\ fac = [phase |-> "none"]
    /\ futures = <<>>
    /\ results = <<>>
    /\ fdone = {}
    /\ ferr = {}
    /\ key = [j \in Jobs |-> NoRunInfo]
    /\ capacity = 0
    /\ pc = "idle"
    /\ arg = NoRunInfo
    /\ nsubmitted = 0
    /\ err = "none"
    /\ log = {}
    /\ returned = <<>>
    /\ delivered = [j \in Jobs |-> 0]
    /\ lastCheck = CheckOf(0, 0)
    /\ shrunk = FALSE
    /\ waited = 0
    /\ trial = [phase |-> "none"]
    /\ outcome = [kind |-> "none"]
    /\ tell = [phase |-> "none"]
    /\ verdict = [kind |-> "none"]
    /\ sel = [phase |-> "none"]
    /\ ints = [phase |-> "none"]
    /\ \E c \in Imputations :
           imp = [phase |-> "loop",
                  censored_y |-> c.censored_y,
                  threshold |-> c.threshold,
                  algorithm_walltime_limit |-> c.algorithm_walltime_limit,
                  max_iter |-> c.max_iter,
                  change_threshold |-> c.change_threshold,
                  it |-> 1,
                  change |-> Frac(0, 1),
                  rounds |-> 0,
                  raw |-> <<>>,
                  y_mean_nans |-> <<>>,
                  filled |-> <<>>,
                  imputed_y |-> <<>>,
                  returns |-> "nothing",
                  result |-> <<>>,
                  events |-> <<>>,
                  trained |-> [on |-> "nothing"]]

\* Lines 102-104: nothing to impute, None is returned.
impute_nothing ==
    /\ imp.phase = "loop"
    /\ Len(imp.censored_y) = 0
    /\ imp' = [imp EXCEPT !.phase = "done", !.returns = "None"]
    /\ UNCHANGED poolVars
    /\ UNCHANGED runVars
    /\ UNCHANGED stopVars
    /\ UNCHANGED <<sel, ints, fac>>

\* The first round is preceded by the training on the uncensored data
\* (line 110).  events lists the calls of the model's train and predict,
\* trained is the data of the last training.
\* One round of the loop, lines 122-180: the model predicts (y_mean), the
\* truncated means are taken (raw), non-finite ones replaced, the change to
\* the round before computed, the values lowered to the threshold; then the
\* model is trained again, or the loop ends and lines 182-190 return.
\* y_mean is read only where raw is not finite; elsewhere one value stands
\* for all.
impute_round ==
    /\ imp.phase = "loop"
    /\ Len(imp.censored_y) > 0
    /\ \E predicted \in [DOMAIN imp.censored_y -> Predictions] :
           /\ \A i \in DOMAIN predicted :
                  predicted[i].raw \in
                      truncnorm_stats(imp.censored_y[i], imp.threshold)
           /\ LET raw == [i \in DOMAIN predicted |-> predicted[i].raw]
                  y_mean == [i \in DOMAIN predicted |-> predicted[i].y_mean]
                  filled == fill_nonfinite(raw, imp.censored_y, y_mean)
                  change == IF imp.it > 1
                            THEN relative_change(filled, imp.imputed_y)
                            ELSE imp.change
                  lowered == lower_to_threshold(filled, imp.threshold)
                  again == train_again(change, imp.change_threshold, imp.it)
                  ends == ~again \/ imp.it + 1 > imp.max_iter
              IN imp' = [imp EXCEPT
                     !.raw = raw,
                     !.y_mean_nans = [i \in {j \in DOMAIN raw : ~isfinite(raw[j])}
                                         |-> y_mean[i]],
                     !.filled = filled,
                     !.change = change,
                     !.imputed_y = lowered,
                     !.rounds = @ + 1,
                     !.it = IF again THEN @ + 1 ELSE @,
                     !.phase = IF ends THEN "done" ELSE "loop",
                     !.returns = IF ends THEN "array" ELSE @,
                     !.result = IF ends
                                THEN par10(lowered, imp.algorithm_walltime_limit,
                                           imp.threshold)
                                ELSE @,
                     !.events = (IF imp.rounds = 0
                                 THEN <<"train">> ELSE @) \o <<"predict">>
                                \o (IF again THEN <<"train">> ELSE <<>>),
                     !.trained = IF again
                                 THEN [on |-> "uncensored and imputed",
                                       imputed_y |-> lowered]
                                 ELSE IF imp.rounds = 0
                                 THEN [on |-> "uncensored"]
                                 ELSE @]
    /\ UNCHANGED poolVars
    /\ UNCHANGED runVars
    /\ UNCHANGED stopVars
    /\ UNCHANGED <<sel, ints, fac>>

ImputeNext ==
    \/ impute_nothing
    \/ impute_round

ImputeSpec == ImputeInit /\ [][ImputeNext]_vars

\* The loop keeps running: predict and train return.
ImputeFairSpec == ImputeSpec /\ WF_vars(ImputeNext)

(***************************************************************************)
(* Properties of impute.                                                   *)
(***************************************************************************)
\* The call has returned an array of imputed values.
Imputed == imp.phase = "done" /\ imp.returns = "array"

\* C22 (as claimed): every value impute returns is at least the censored
\* value of its point and at most the threshold, whatever the model
\* predicts.
C22_ImputedWithinBounds ==
    Imputed =>
        \A i \in DOMAIN imp.result :
            /\ isfinite(imp.result[i])
            /\ imp.censored_y[i] <= imp.result[i]
            /\ imp.result[i] <= imp.threshold

\* C23: impute terminates after at most max(max_iter, 1) prediction rounds;
\* a round after the first whose change is not above change_threshold ends
\* the loop, and the loop ends only so or with max_iter rounds made.
C23_ImputeTerminates ==
    /\ [](imp.rounds <= Max(imp.max_iter, 1))
    /\ [][imp.phase = "loop" /\ imp'.rounds = imp.rounds + 1 =>
            LET converged ==
                    /\ imp.it > 1
                    /\ ~frac_gt(imp'.change,
                                Frac(imp.change_threshold, ChangeUnit))
            IN /\ converged => imp'.phase = "done"
               /\ imp'.phase = "done" =>
                      converged \/ imp'.rounds >= imp.max_iter]_vars
    /\ <>(imp.phase = "done")

\* C23 witness: the loop ended by convergence after 2 of 3 rounds.
C23_Witness ==
    /\ Imputed
    /\ imp.rounds = 2
    /\ imp.max_iter = 3

\* C24 (as claimed): from the second round on, the change computed in a
\* round is not above the change computed in the round before.
C24_ChangeNonIncreasing ==
    [][imp.phase = "loop" /\ imp'.rounds = imp.rounds + 1 /\ imp.it > 2 =>
           ~frac_gt(imp'.change, imp.change)]_vars

\* C25: a truncated mean that is not finite is replaced by the larger of
\* the point's censored value and predicted mean (by NaN if the mean is
\* NaN, as np.max gives it), and with finite predicted means no value
\* impute returns is non-finite.
C25_NonFiniteReplaced ==
    /\ imp.rounds > 0 =>
           \A i \in DOMAIN imp.raw :
               ~isfinite(imp.raw[i]) =>
                   IF isfinite(imp.y_mean_nans[i])
                   THEN imp.filled[i] =
                            Max(imp.censored_y[i], imp.y_mean_nans[i])
                   ELSE ~isfinite(imp.filled[i])
    /\ Imputed =>
           \A i \in DOMAIN imp.result :
               (~isfinite(imp.raw[i]) => isfinite(imp.y_mean_nans[i]))
               => isfinite(imp.result[i])

\* C25 witness: a non-finite truncated mean was replaced by the predicted
\* mean, which lies above the censored value, and impute returned.
C25_Witness ==
    /\ Imputed
    /\ \E i \in DOMAIN imp.raw :
           /\ ~isfinite(imp.raw[i])
           /\ imp.y_mean_nans[i] > imp.censored_y[i]
           /\ imp.filled[i] = imp.y_mean_nans[i]

(***************************************************************************)
(* Part 5: smac.selection (ranking.py, selection.py).                      *)
(***************************************************************************)
\* Largest number of configurations given to rank.
MaxRanked == 4
\* The objective values; fewer than MaxRanked, so that ties happen.
ObjectiveValues == {1, 2, 3}
\* The objectives lists: one value per configuration.
ObjectiveLists == UNION {[1..n -> ObjectiveValues] : n \in 0..MaxRanked}
\* How often rank is called on one list.
RankCalls == 2

\* range(n): 0, ..., n - 1.
range(n) == [i \in 1..n |-> i - 1]

\* Mutant of insert_by_key: the item goes before the items of equal key.
RECURSIVE insert_by_key_before_ties(_, _, _)
insert_by_key_before_ties(done, x, key_of) ==
    IF done = <<>> THEN <<x>>
    ELSE IF key_of[done[Len(done)]] < key_of[x] THEN Append(done, x)
    ELSE Append(insert_by_key_before_ties(SubSeq(done, 1, Len(done) - 1), x, key_of),
                done[Len(done)])

\* One step of the stable sort: x, which comes after the items of done in
\* the input, is placed behind the items whose key is not above its own.
RECURSIVE insert_by_key(_, _, _)
insert_by_key(done, x, key_of) ==
    IF done = <<>> THEN <<x>>
    ELSE IF key_of[done[Len(done)]] <= key_of[x] THEN Append(done, x)
    ELSE Append(insert_by_key(SubSeq(done, 1, Len(done) - 1), x, key_of),
                done[Len(done)])

\* sorted(items, key=...): ascending by key, stable.
RECURSIVE sorted(_, _)
sorted(items, key_of) ==
    IF items = <<>> THEN <<>>
    ELSE insert_by_key(sorted(SubSeq(items, 1, Len(items) - 1), key_of),
                       items[Len(items)], key_of)

\* ranking.py line 13; positions are counted from 0 as in the source.
SingleObjectiveRanking_rank(objectives) ==
    sorted(range(Len(objectives)),
           [i \in 0..(Len(objectives) - 1) |-> objectives[i + 1]])

\* Mutant of best_of: the configuration at the last ranked position.
best_of_last(ranked_indices) ==
    IF ranked_indices = <<>>
    THEN [kind |-> "raises", exc |-> "IndexError"]
    ELSE [kind |-> "returns", value |-> ranked_indices[Len(ranked_indices)]]

\* selection.py lines 10-11: the configuration at the first ranked position
\* (configurations are named by their position); ranked_indices[0] of an
\* empty ranking raises IndexError.
best_of(ranked_indices) ==
    IF ranked_indices = <<>>
    THEN [kind |-> "raises", exc |-> "IndexError"]
    ELSE [kind |-> "returns", value |-> ranked_indices[1]]

\* selection.py lines 9-11 with a SingleObjectiveRanking.
IncumbentSelection_select(objectives) ==
    best_of(SingleObjectiveRanking_rank(objectives))

RankInit ==
    /\ fac = [phase |-> "none"]
    /\ futures = <<>>
    /\ results = <<>>
    /\ fdone = {}
    /\ ferr = {}
    /\ key = [j \in Jobs |-> NoRunInfo]
    /\ capacity = 0
    /\ pc = "idle"
    /\ arg = NoRunInfo
    /\ nsubmitted = 0
    /\ err = "none"
    /\ log = {}
    /\ returned = <<>>
    /\ delivered = [j \in Jobs |-> 0]
    /\ lastCheck = CheckOf(0, 0)
    /\ shrunk = FALSE
    /\ waited = 0
    /\ trial = [phase |-> "none"]
    /\ outcome = [kind |-> "none"]
    /\ tell = [phase |-> "none"]
    /\ verdict = [kind |-> "none"]
    /\ imp = [phase |-> "none"]
    /\ ints = [phase |-> "none"]
    /\ \E objectives \in ObjectiveLists :
           sel = [phase |-> "call",
                  objectives |-> objectives,
                  calls |-> 0,
                  ranked |-> <<>>,
                  before |-> <<>>,
                  selected |-> [kind |-> "none"]]

\* One call of rank on the objectives; the return value of the call before
\* is kept for comparison.
rank ==
    /\ sel.phase \in {"call", "ranked"}
    /\ sel.calls < RankCalls
    /\ sel' = [sel EXCEPT
           !.phase = "ranked",
           !.calls = @ + 1,
           !.before = sel.ranked,
           !.ranked = SingleObjectiveRanking_rank(sel.objectives)]
    /\ UNCHANGED poolVars
    /\ UNCHANGED runVars
    /\ UNCHANGED stopVars
    /\ UNCHANGED <<imp, ints, fac>>

\* One call of select on the objectives.
select ==
    /\ sel.phase \in {"call", "ranked"}
    /\ sel.selected.kind = "none"
    /\ sel' = [sel EXCEPT !.selected = IncumbentSelection_select(sel.objectives)]
    /\ UNCHANGED poolVars
    /\ UNCHANGED runVars
    /\ UNCHANGED stopVars
    /\ UNCHANGED <<imp, ints, fac>>

RankNext ==
    \/ rank
    \/ select

RankSpec == RankInit /\ [][RankNext]_vars

\* C26: rank returns a permutation of 0..n-1 in ascending order of the
\* objective, equal objectives in ascending order of position; a second call
\* on the same objectives returns the same order; the first k positions of
\* the ranking name k different configurations.
C26_RankIsStableOrder ==
    sel.phase = "ranked" =>
        LET r == sel.ranked
            n == Len(sel.objectives)
        IN /\ Len(r) = n
           /\ Range(r) = 0..(n - 1)
           /\ \A a, b \in 1..n :
                  a < b =>
                      /\ sel.objectives[r[a] + 1] <= sel.objectives[r[b] + 1]
                      /\ sel.objectives[r[a] + 1] = sel.objectives[r[b] + 1]
                             => r[a] < r[b]
           /\ sel.calls > 1 => sel.before = r
           /\ \A k \in 0..n : Cardinality(Range(SubSeq(r, 1, k))) = k

\* C26 witness: four objectives with two ties, ranked twice.
C26_Witness ==
    /\ sel.phase = "ranked"
    /\ sel.calls = 2
    /\ sel.objectives = <<2, 1, 2, 1>>
    /\ sel.ranked = <<1, 3, 0, 2>>

(***************************************************************************)
(* Part 5, continued: ParetoRanking and select under either ranking.       *)
(***************************************************************************)
\* Largest number of configurations given to a ParetoRanking.
MaxVectors == 3
\* Number of objectives of a configuration under a ParetoRanking.
NumObjectives == 2
\* The objectives lists of a ParetoRanking: one vector per configuration.
VectorLists ==
    UNION {[1..n -> [1..NumObjectives -> ObjectiveValues]] : n \in 0..MaxVectors}

\* zip(p1, p2): the positions both vectors have.
zip(p1, p2) == (DOMAIN p1) \cap (DOMAIN p2)

\* Mutant of dominates: no strictly smaller objective is asked for.
dominates_weakly(p1, p2) ==
    \A k \in zip(p1, p2) : p1[k] <= p2[k]

\* ranking.py lines 18-19.
dominates(p1, p2) ==
    /\ \A k \in zip(p1, p2) : p1[k] <= p2[k]
    /\ \E k \in zip(p1, p2) : p1[k] < p2[k]

\* ranking.py lines 21-30; positions are counted from 0 as in the source.
ParetoRanking_rank(objectives) ==
    SelectSeq(range(Len(objectives)),
              LAMBDA i : ~\E j \in 0..(Len(objectives) - 1) :
                              i # j /\ dominates(objectives[j + 1], objectives[i + 1]))

\* self.ranking_method.rank of selection.py line 9.
RankingMethods == {"SingleObjectiveRanking", "ParetoRanking"}
ranking_method_rank(method, objectives) ==
    IF method = "ParetoRanking"
    THEN ParetoRanking_rank(objectives)
    ELSE SingleObjectiveRanking_rank(objectives)

\* selection.py lines 8-11 with the given ranking method.
IncumbentSelection_select_with(method, objectives) ==
    best_of(ranking_method_rank(method, objectives))

SelectInit ==
    /\ fac = [phase |-> "none"]
    /\ futures = <<>>
    /\ results = <<>>
    /\ fdone = {}
    /\ ferr = {}
    /\ key = [j \in Jobs |-> NoRunInfo]
    /\ capacity = 0
    /\ pc = "idle"
    /\ arg = NoRunInfo
    /\ nsubmitted = 0
    /\ err = "none"
    /\ log = {}
    /\ returned = <<>>
    /\ delivered = [j \in Jobs |-> 0]
    /\ lastCheck = CheckOf(0, 0)
    /\ shrunk = FALSE
    /\ waited = 0
    /\ trial = [phase |-> "none"]
    /\ outcome = [kind |-> "none"]
    /\ tell = [phase |-> "none"]
    /\ verdict = [kind |-> "none"]
    /\ imp = [phase |-> "none"]
    /\ ints = [phase |-> "none"]
    /\ \E method \in RankingMethods :
       \E objectives \in (IF method = "ParetoRanking"
                          THEN VectorLists ELSE ObjectiveLists) :
           sel = [phase |-> "call",
                  method |-> method,
                  objectives |-> objectives,
                  ranked |-> <<>>,
                  selected |-> [kind |-> "none"]]

\* A call of the ranking method's rank.
rank_with ==
    /\ sel.phase = "call"
    /\ sel' = [sel EXCEPT
           !.phase = "ranked",
           !.ranked = ranking_method_rank(sel.method, sel.objectives)]
    /\ UNCHANGED poolVars
    /\ UNCHANGED runVars
    /\ UNCHANGED stopVars
    /\ UNCHANGED <<imp, ints, fac>>

\* A call of IncumbentSelection.select.
select_with ==
    /\ sel.phase \in {"call", "ranked"}
    /\ sel.selected.kind = "none"
    /\ sel' = [sel EXCEPT
           !.selected = IncumbentSelection_select_with(sel.method, sel.objectives)]
    /\ UNCHANGED poolVars
    /\ UNCHANGED runVars
    /\ UNCHANGED stopVars
    /\ UNCHANGED <<imp, ints, fac>>

SelectNext ==
    \/ rank_with
    \/ select_with

SelectSpec == SelectInit /\ [][SelectNext]_vars

\* The vector at position i (from 0) is dominated by the one at position j:
\* not larger in any objective and smaller in at least one.
Dominated(i, j) ==
    LET p == sel.objectives[j + 1]
        q == sel.objectives[i + 1]
    IN /\ \A k \in 1..NumObjectives : p[k] <= q[k]
       /\ \E k \in 1..NumObjectives : p[k] < q[k]

\* The positions of the vectors no other vector dominates.
NonDominated ==
    {i \in 0..(Len(sel.objectives) - 1) :
        ~\E j \in 0..(Len(sel.objectives) - 1) : j # i /\ Dominated(i, j)}

\* C36: ParetoRanking.rank returns, in ascending order, exactly the
\* positions of the vectors that no other vector dominates; a vector equal
\* to another is not dominated by it; the result of a non-empty input is
\* not empty.
C36_ParetoFront ==
    sel.phase = "ranked" /\ sel.method = "ParetoRanking" =>
        LET r == sel.ranked
            n == Len(sel.objectives)
        IN /\ \A a, b \in DOMAIN r : a < b => r[a] < r[b]
           /\ Range(r) = NonDominated
           /\ \A i, j \in 0..(n - 1) :
                  /\ sel.objectives[i + 1] = sel.objectives[j + 1]
                  /\ i \in Range(r)
                  => j \in Range(r)
           /\ n > 0 => r # <<>>

\* C36 witness: the first vector is dominated by the two others, which are
\* equal; both are returned.
C36_Witness ==
    /\ sel.phase = "ranked"
    /\ sel.method = "ParetoRanking"
    /\ sel.objectives = <<<<2, 2>>, <<1, 2>>, <<1, 2>>>>
    /\ sel.ranked = <<1, 2>>

\* C37: select fails, with IndexError, exactly on the empty input; on any
\* other it returns a configuration of the input: under
\* SingleObjectiveRanking the first one of minimal objective, under
\* ParetoRanking the first one that no other dominates.
C37_SelectsUnbeaten ==
    sel.phase \in {"call", "ranked"} /\ sel.selected.kind # "none" =>
        LET n == Len(sel.objectives)
            v == sel.selected.value
        IN /\ n = 0 <=> sel.selected.kind = "raises"
           /\ n > 0 =>
                  /\ sel.selected.kind = "returns"
                  /\ v \in 0..(n - 1)
                  /\ sel.method = "SingleObjectiveRanking" =>
                         /\ \A i \in 0..(n - 1) :
                                sel.objectives[v + 1] <= sel.objectives[i + 1]
                         /\ \A i \in 0..(v - 1) :
                                sel.objectives[v + 1] < sel.objectives[i + 1]
                  /\ sel.method = "ParetoRanking" =>
                         /\ v \in NonDominated
                         /\ \A i \in 0..(v - 1) : i \notin NonDominated

\* C37 witness: under ParetoRanking the first vector is dominated and the
\* two others are not; the second configuration is selected.
C37_Witness ==
    /\ sel.selected = [kind |-> "returns", value |-> 1]
    /\ sel.method = "ParetoRanking"
    /\ sel.objectives = <<<<2, 2>>, <<1, 2>>, <<2, 1>>>>

(***************************************************************************)
(* Part 6: intensifiers.  SimpleIntensifier, from the specification        *)
(* (section 4.2) and test_simple_intensifier.py.                           *)
(***************************************************************************)
\* Number of configurations that are ever challengers.
MaxChallengers == 3
\* Largest num_workers.
MaxWorkers == 2
\* The costs a finished run reports.
Costs == {1, 2, 3}

Challengers == 1..MaxChallengers
\* config=None / no incumbent.
NoConfig == 0
\* instance=None; the test's runs are on instance 1.
NoInstance == 0
TheInstance == 1

RunInfoIntent == {"RUN", "WAIT"}

\* RunInfo(config, instance, instance_specific="0", seed, budget).
RunInfo(config, instance) ==
    [config |-> config, instance |-> instance, seed |-> 0, budget |-> 0]

\* The runs handed out and not yet processed.
total_active_runs(run_tracker) ==
    Cardinality({c \in DOMAIN run_tracker : ~run_tracker[c]})

\* Mutant of workers_busy: one run more than workers is let through.
workers_busy_above(run_tracker, num_workers) ==
    total_active_runs(run_tracker) > num_workers

\* "In the case all workers are busy, we wait".
workers_busy(run_tracker, num_workers) ==
    total_active_runs(run_tracker) >= num_workers

\* What get_next_run returns: (intent, run_info).
get_next_run_of(challengers, run_tracker, num_workers) ==
    IF workers_busy(run_tracker, num_workers)
    THEN [intent |-> "WAIT", run_info |-> RunInfo(NoConfig, NoInstance)]
    ELSE [intent |-> "RUN", run_info |-> RunInfo(challengers[1], TheInstance)]

\* Mutant of compare_configs: a challenger of equal cost replaces too.
compare_configs_not_worse(incumbent, challenger, cost_of) ==
    IF cost_of[challenger] <= cost_of[incumbent] THEN challenger ELSE incumbent

\* The incumbent after the comparison with a challenger: the configuration
\* IncumbentSelection.select picks of (incumbent, challenger) by their
\* costs, so the challenger only when its cost is strictly better.
compare_configs(incumbent, challenger, cost_of) ==
    LET configurations == <<incumbent, challenger>>
        objectives == <<cost_of[incumbent], cost_of[challenger]>>
    IN configurations[IncumbentSelection_select(objectives).value + 1]

\* What process_results returns: (incumbent, inc_perf); without an incumbent
\* the evaluated configuration is the incumbent.
process_results_of(config, incumbent, cost_of) ==
    LET new == IF incumbent = NoConfig
               THEN config
               ELSE compare_configs(incumbent, config, cost_of)
    IN [incumbent |-> new, inc_perf |-> cost_of[new]]

SimpleInit ==
    /\ fac = [phase |-> "none"]
    /\ futures = <<>>
    /\ results = <<>>
    /\ fdone = {}
    /\ ferr = {}
    /\ key = [j \in Jobs |-> NoRunInfo]
    /\ capacity = 0
    /\ pc = "idle"
    /\ arg = NoRunInfo
    /\ nsubmitted = 0
    /\ err = "none"
    /\ log = {}
    /\ returned = <<>>
    /\ delivered = [j \in Jobs |-> 0]
    /\ lastCheck = CheckOf(0, 0)
    /\ shrunk = FALSE
    /\ waited = 0
    /\ trial = [phase |-> "none"]
    /\ outcome = [kind |-> "none"]
    /\ tell = [phase |-> "none"]
    /\ verdict = [kind |-> "none"]
    /\ imp = [phase |-> "none"]
    /\ sel = [phase |-> "none"]
    /\ \E num_workers \in 1..MaxWorkers :
           ints = [phase |-> "simple",
                   num_workers |-> num_workers,
                   run_tracker |-> <<>>,
                   cost_of |-> <<>>,
                   incumbent |-> NoConfig,
                   inc_perf |-> 0,
                   last |-> "none",
                   challengers |-> <<>>,
                   answer |-> [intent |-> "none"],
                   processed |-> NoConfig]

\* get_next_run(challengers, incumbent, runhistory, num_workers, chooser):
\* the challengers are configurations not handed out before.
get_next_run ==
    /\ ints.phase = "simple"
    /\ \E first, second \in Challengers \ DOMAIN ints.run_tracker :
           LET challengers == IF first = second THEN <<first>>
                              ELSE <<first, second>>
               answer == get_next_run_of(challengers, ints.run_tracker,
                                         ints.num_workers)
           IN ints' = [ints EXCEPT
                  !.last = "get_next_run",
                  !.challengers = challengers,
                  !.answer = answer,
                  !.run_tracker =
                      IF answer.intent = "RUN"
                      THEN [c \in DOMAIN ints.run_tracker \cup {challengers[1]} |->
                                IF c = challengers[1] THEN FALSE
                                ELSE ints.run_tracker[c]]
                      ELSE @]
    /\ UNCHANGED poolVars
    /\ UNCHANGED runVars
    /\ UNCHANGED stopVars
    /\ UNCHANGED <<imp, sel, fac>>

\* The run of a configuration handed out ends with a cost, the caller adds
\* it to the run history and calls process_results(run_info, incumbent,
\* runhistory, time_bound, result) with the incumbent returned before.
process_results ==
    /\ ints.phase = "simple"
    /\ \E config \in DOMAIN ints.run_tracker, cost \in Costs :
           /\ ~ints.run_tracker[config]
           /\ LET cost_of == [c \in DOMAIN ints.cost_of \cup {config} |->
                                 IF c = config THEN cost ELSE ints.cost_of[c]]
                  ret == process_results_of(config, ints.incumbent, cost_of)
              IN ints' = [ints EXCEPT
                     !.last = "process_results",
                     !.processed = config,
                     !.run_tracker = [@ EXCEPT ![config] = TRUE],
                     !.cost_of = cost_of,
                     !.incumbent = ret.incumbent,
                     !.inc_perf = ret.inc_perf]
    /\ UNCHANGED poolVars
    /\ UNCHANGED runVars
    /\ UNCHANGED stopVars
    /\ UNCHANGED <<imp, sel, fac>>

SimpleNext ==
    \/ get_next_run
    \/ process_results

SimpleSpec == SimpleInit /\ [][SimpleNext]_vars

\* C27: a call of process_results without an incumbent makes the evaluated
\* configuration the incumbent with its recorded cost; with an incumbent,
\* the incumbent's cost does not increase, and the incumbent changes only
\* to a configuration of strictly better cost.
C27_IncumbentNeverRegresses ==
    [][ints.phase = "simple" /\ ints'.last = "process_results"
       /\ ints'.run_tracker # ints.run_tracker =>
           IF ints.incumbent = NoConfig
           THEN /\ ints'.incumbent = ints'.processed
                /\ ints'.inc_perf = ints'.cost_of[ints'.processed]
           ELSE /\ ints'.inc_perf <= ints.inc_perf
                /\ ints'.incumbent # ints.incumbent =>
                       ints'.inc_perf < ints.inc_perf]_vars

\* C27 witness: all challengers are processed, the first was the incumbent
\* and the last one, of strictly better cost, is the incumbent now.
C27_Witness ==
    /\ ints.phase = "simple"
    /\ DOMAIN ints.cost_of = Challengers
    /\ ints.incumbent = ints.processed
    /\ \A c \in Challengers \ {ints.incumbent} :
           ints.cost_of[c] > ints.inc_perf

\* C28: get_next_run answers RUN with the first challenger (seed 0, budget
\* 0) while fewer runs are outstanding than num_workers and WAIT with an
\* empty run info otherwise; never are more runs outstanding than workers.
C28_RunOrWait ==
    /\ [](ints.phase = "simple" =>
              total_active_runs(ints.run_tracker) <= ints.num_workers)
    /\ [][ints.phase = "simple" /\ ints'.last = "get_next_run"
          /\ ints' # ints =>
              IF total_active_runs(ints.run_tracker) < ints.num_workers
              THEN /\ ints'.answer.intent = "RUN"
                   /\ ints'.answer.run_info =
                          [config |-> ints'.challengers[1],
                           instance |-> TheInstance, seed |-> 0, budget |-> 0]
                   /\ total_active_runs(ints'.run_tracker) =
                          total_active_runs(ints.run_tracker) + 1
              ELSE /\ ints'.answer.intent = "WAIT"
                   /\ ints'.answer.run_info =
                          [config |-> NoConfig, instance |-> NoInstance,
                           seed |-> 0, budget |-> 0]
                   /\ ints'.run_tracker = ints.run_tracker]_vars

\* C28 witness: with two workers and two runs outstanding the answer is
\* WAIT.
C28_Witness ==
    /\ ints.phase = "simple"
    /\ ints.num_workers = 2
    /\ total_active_runs(ints.run_tracker) = 2
    /\ ints.last = "get_next_run"
    /\ ints.answer.intent = "WAIT"

(***************************************************************************)
(* Part 6, continued: one successive-halving bracket, from the             *)
(* specification (sections 3, 4.3 and 8).                                  *)
(***************************************************************************)
\* Largest number of configurations a bracket starts with.
MaxPopulation == 8
\* The reduction factors.
Etas == {2, 3}
\* The minimum budget.
MinBudget == 1

RECURSIVE power(_, _)
power(b, e) == IF e = 0 THEN 1 ELSE b * power(b, e - 1)

\* The brackets: s + 1 rungs, started with eta^s configurations.
Brackets ==
    {b \in [eta : Etas, s : 0..MaxPopulation, b_min : {MinBudget}] :
         power(b.eta, b.s) <= MaxPopulation}

\* Budgets b_min * eta^i of the rungs i = 0..s.
rung_budgets(eta, b_min, s) == [i \in 1..(s + 1) |-> b_min * power(eta, i - 1)]

\* The costs of n configurations at the first rung: the rotations of 1..n
\* (distinct costs in every order of the cheapest) and one list with ties.
CostLists(n) ==
    {[c \in 1..n |-> ((c + k) % n) + 1] : k \in 0..(n - 1)} \cup
    {[c \in 1..n |-> 1 + (c % 2)]}

\* The cost of configuration c at a rung: the costs move round with the
\* rung, so that the order of the configurations differs between rungs.
cost_at(first_costs, rung, c) ==
    ((first_costs[c] + rung - 2) % Len(first_costs)) + 1

\* Mutant of rung_complete: one terminal result is enough.
rung_complete_some(configs, cost_of) ==
    \E i \in DOMAIN configs : configs[i] \in DOMAIN cost_of

\* "A rung is complete only when every config submitted to it has a terminal
\* result".
rung_complete(configs, cost_of) ==
    \A i \in DOMAIN configs : configs[i] \in DOMAIN cost_of

\* Mutant of promoted: the configurations submitted first are promoted,
\* whatever they cost.
promoted_submitted_first(configs, cost_of, eta) ==
    [k \in 1..(Len(configs) \div eta) |-> configs[k]]

\* The configurations a complete rung promotes: its top 1/eta fraction by
\* ascending cost, ties by earlier submission (the order of ranking.py), in
\* the order of the ranking.
promoted(configs, cost_of, eta) ==
    LET ranked == SingleObjectiveRanking_rank(
                      [i \in DOMAIN configs |-> cost_of[configs[i]]])
    IN [k \in 1..(Len(configs) \div eta) |-> configs[ranked[k] + 1]]

HalvingInit ==
    /\ fac = [phase |-> "none"]
    /\ futures = <<>>
    /\ results = <<>>
    /\ fdone = {}
    /\ ferr = {}
    /\ key = [j \in Jobs |-> NoRunInfo]
    /\ capacity = 0
    /\ pc = "idle"
    /\ arg = NoRunInfo
    /\ nsubmitted = 0
    /\ err = "none"
    /\ log = {}
    /\ returned = <<>>
    /\ delivered = [j \in Jobs |-> 0]
    /\ lastCheck = CheckOf(0, 0)
    /\ shrunk = FALSE
    /\ waited = 0
    /\ trial = [phase |-> "none"]
    /\ outcome = [kind |-> "none"]
    /\ tell = [phase |-> "none"]
    /\ verdict = [kind |-> "none"]
    /\ imp = [phase |-> "none"]
    /\ sel = [phase |-> "none"]
    /\ \E b \in Brackets :
           \E first_costs \in CostLists(power(b.eta, b.s)) :
               ints = [phase |-> "bracket",
                       eta |-> b.eta,
                       b_min |-> b.b_min,
                       b_max |-> b.b_min * power(b.eta, b.s),
                       budgets |-> rung_budgets(b.eta, b.b_min, b.s),
                       first_costs |-> first_costs,
                       rung |-> 1,
                       configs |-> [c \in 1..power(b.eta, b.s) |-> c],
                       cost_of |-> <<>>,
                       rungs |-> <<>>]

\* The run of a configuration of the current rung ends with a result.
trial_ends ==
    /\ ints.phase = "bracket"
    /\ \E i \in DOMAIN ints.configs :
           LET c == ints.configs[i]
           IN /\ c \notin DOMAIN ints.cost_of
              /\ ints' = [ints EXCEPT
                     !.cost_of = [d \in DOMAIN ints.cost_of \cup {c} |->
                                      cost_at(ints.first_costs, ints.rung, d)]]
    /\ UNCHANGED poolVars
    /\ UNCHANGED runVars
    /\ UNCHANGED stopVars
    /\ UNCHANGED <<imp, sel, fac>>

\* The complete rung promotes to the next one; what it raced and what it
\* measured is kept in rungs.
promote ==
    /\ ints.phase = "bracket"
    /\ ints.rung < Len(ints.budgets)
    /\ rung_complete(ints.configs, ints.cost_of)
    /\ ints' = [ints EXCEPT
           !.rung = @ + 1,
           !.configs = promoted(ints.configs, ints.cost_of, ints.eta),
           !.cost_of = <<>>,
           !.rungs = Append(@, [configs |-> ints.configs,
                                cost_of |-> ints.cost_of])]
    /\ UNCHANGED poolVars
    /\ UNCHANGED runVars
    /\ UNCHANGED stopVars
    /\ UNCHANGED <<imp, sel, fac>>

HalvingNext ==
    \/ trial_ends
    \/ promote

HalvingSpec == HalvingInit /\ [][HalvingNext]_vars

\* The bracket of the claim: eta = 2, b_min = 1, b_max = 8.
TheBracket == ints.phase = "bracket" /\ ints.eta = 2 /\ ints.b_min = 1 /\ ints.b_max = 8

\* C29: the bracket eta = 2, b_min = 1, b_max = 8 has the budgets 1, 2, 4,
\* 8, each eta times the one before; of its 8 configurations the 4 cheapest
\* of the first rung are promoted, then the 2 cheapest, then the cheapest;
\* and a rung promotes only when each of its configurations has a result.
C29_BracketHalves ==
    /\ [](TheBracket =>
              /\ ints.budgets = <<1, 2, 4, 8>>
              /\ \A i \in 1..3 : ints.budgets[i + 1] = ints.eta * ints.budgets[i]
              /\ Len(ints.rungs) = ints.rung - 1
              /\ Len(ints.configs) = <<8, 4, 2, 1>>[ints.rung]
              /\ \A r \in DOMAIN ints.rungs :
                     LET raced == ints.rungs[r]
                         next == IF r = Len(ints.rungs) THEN ints.configs
                                 ELSE ints.rungs[r + 1].configs
                     IN /\ Len(next) = <<4, 2, 1>>[r]
                        /\ Cardinality(Range(next)) = Len(next)
                        /\ Range(next) \subseteq Range(raced.configs)
                        /\ \A c \in Range(next) :
                               \A d \in Range(raced.configs) \ Range(next) :
                                   raced.cost_of[c] <= raced.cost_of[d])
    /\ [][TheBracket /\ ints'.rung # ints.rung =>
              \A i \in DOMAIN ints.configs :
                  ints.configs[i] \in DOMAIN ints.cost_of]_vars

\* C29 witness: the bracket of the claim, with distinct costs, has reached
\* its fourth rung with one configuration.
C29_Witness ==
    /\ TheBracket
    /\ ints.rung = 4
    /\ Len(ints.configs) = 1
    /\ Cardinality(Range(ints.first_costs)) = 8

(***************************************************************************)
(* Part 1, continued: progress of submit_run.  The cluster keeps at least  *)
(* one worker thread and completes every job in flight; the control thread *)
(* runs on when it is not blocked.                                         *)
(***************************************************************************)
LiveInit ==
    /\ fac = [phase |-> "none"]
    /\ futures = <<>>
    /\ results = <<>>
    /\ fdone = {}
    /\ ferr = {}
    /\ key = [j \in Jobs |-> NoRunInfo]
    /\ capacity \in 1..MaxCap
    /\ pc = "idle"
    /\ arg = NoRunInfo
    /\ nsubmitted = 0
    /\ err = "none"
    /\ log = {}
    /\ returned = <<>>
    /\ delivered = [j \in Jobs |-> 0]
    /\ lastCheck = CheckOf(0, 0)
    /\ shrunk = FALSE
    /\ waited = 0
    /\ trial = [phase |-> "none"]
    /\ outcome = [kind |-> "none"]
    /\ tell = [phase |-> "none"]
    /\ verdict = [kind |-> "none"]
    /\ imp = [phase |-> "none"]
    /\ sel = [phase |-> "none"]
    /\ ints = [phase |-> "none"]

LiveNext ==
    \/ \E k \in TrialKeys : submit_run(k)
    \/ submit_run_wait_returns
    \/ submit_run_check
    \/ submit_run_after_sleep
    \/ submit_run_append
    \/ get_finished_runs
    \/ wait
    \/ wait_returns
    \/ tick_blocked
    \/ tick_sleep
    \/ \E j \in Jobs : job_completes(j)
    \/ \E c \in 1..MaxCap : capacity_changes(c)

\* The steps of a submit_run call after its first line.
submit_run_continues ==
    \/ submit_run_wait_returns
    \/ submit_run_check
    \/ tick_sleep
    \/ submit_run_after_sleep
    \/ submit_run_append

LiveSpec ==
    /\ LiveInit
    /\ [][LiveNext]_vars
    /\ WF_vars(submit_run_continues)
    /\ \A j \in Jobs : WF_vars(job_completes(j))

\* Where the control thread is inside submit_run.
InSubmitRun == pc \in {"sub_wait", "sub_check2", "sub_sleep", "sub_append"}

\* C30 (as claimed): with at least one worker thread at all times and every
\* job in flight completing, a submit_run call raises nothing, returns, and
\* returns with its job appended to the in-flight list; the runs a blocked
\* call collected stay in the results buffer.
C30_SubmitRunReturnsAccepted ==
    /\ [](err # "ValueError")
    /\ InSubmitRun ~> pc = "idle"
    /\ [][InSubmitRun /\ pc' = "idle" =>
              futures' = Append(futures, nsubmitted + 1)]_vars
    /\ [][pc = "sub_wait" /\ pc' # "sub_wait" =>
              /\ \A i \in DOMAIN results : results'[i] = results[i]
              /\ Range(results') = Range(results) \cup DoneInFlight]_vars

(***************************************************************************)
(* Part 1, continued: pending_runs and the order of the returned results.  *)
(***************************************************************************)
\* C31 (as claimed): between pool calls, while a collected result is in the
\* results buffer and not yet returned by get_finished_runs, pending_runs()
\* returns True.
C31_PendingWhileUndelivered ==
    pc = "idle" /\ results # <<>> => pending_runs

\* C32: get_finished_runs returns the results buffer, with the runs the
\* call itself collects (in submission order) at its end, in reverse order:
\* what was collected last comes first.
C32_ReturnedInReverse ==
    [][pc = "idle" /\ delivered' # delivered =>
           LET collected == SelectSeq(futures, LAMBDA j : j \in fdone)
               buffer == results \o collected
           IN /\ \A i, j \in DOMAIN collected : i < j => collected[i] < collected[j]
              /\ Len(returned') = Len(buffer)
              /\ \A i \in DOMAIN buffer :
                     returned'[i] = buffer[Len(buffer) + 1 - i]]_vars

\* C32 witness: two results were returned, the one of the job submitted
\* first collected last and returned first.
C32_Witness ==
    /\ pc = "idle"
    /\ err = "none"
    /\ returned = <<1, 2>>

C34_TrainingOrder ==
    /\ [](imp.phase \in {"loop", "done"} =>
              /\ imp.rounds > 0 =>
                     /\ imp.events[1] = "train"
                     /\ imp.events[2] = "predict"
              /\ imp.rounds = 0 =>
                     /\ imp.events = <<>>
                     /\ imp.trained.on = "nothing"
              /\ imp.trained.on = "uncensored" =>
                     imp.events = <<"train", "predict">>
              /\ imp.trained.on = "uncensored and imputed" =>
                     DOMAIN imp.trained.imputed_y = DOMAIN imp.censored_y
              /\ Imputed => imp.trained.on = "uncensored and imputed"
              /\ imp.phase = "done" /\ imp.returns = "None" =>
                     imp.events = <<>>)
    /\ [][imp.phase = "loop" /\ imp'.rounds = imp.rounds + 1
          /\ imp'.events[Len(imp'.events)] = "train" =>
              /\ imp'.trained.on = "uncensored and imputed"
              /\ imp'.trained.imputed_y = imp'.imputed_y]_vars

\* C34 witness: three rounds were made and the last one did not train: the
\* last training was on the imputed values of the second round, which
\* differ from the ones of the third.
C34_Witness ==
    /\ Imputed
    /\ imp.rounds = 3
    /\ imp.events = <<"train", "predict", "train", "predict", "train", "predict">>
    /\ imp.trained.on = "uncensored and imputed"
    /\ imp.trained.imputed_y # imp.imputed_y

(***************************************************************************)
(* What on_tell_end tells its logging callbacks.                           *)
(***************************************************************************)
\* C35: the `triggered` value passed to the logging callbacks is the outcome
\* of the regret test, regret below the error by at least epsilon, whether
\* do_not_trigger is set or not.
C35_ToldTriggeredIsRegretTest ==
    tell.phase = "done" /\ verdict.kind = "return" =>
        \A r \in verdict.log :
            r.triggered <=>
                /\ r.min_ucb - r.min_lcb < tell.error
                /\ tell.error - (r.min_ucb - r.min_lcb) >= tell.epsilon

\* C35 witness: with do_not_trigger set and the regret below the error by
\* more than epsilon, the callbacks were told triggered = True and the call
\* returned True.
C35_Witness ==
    /\ tell.phase = "done"
    /\ tell.do_not_trigger
    /\ verdict.kind = "return"
    /\ verdict.value = TRUE
    /\ \E r \in verdict.log :
           /\ r.triggered
           /\ r.regret < r.error
           /\ r.error - r.regret > tell.epsilon

(***************************************************************************)
(* Part 7: Facade (facade.py): the end of __init__, which calls _continue  *)
(* and saves the scenario, and optimize.  The run history is the set of    *)
(* its trials, the stats are the counters submitted and finished; load,    *)
(* load_json, reset, save and print of the stats, the run history, the     *)
(* scenario and the optimizer do what they are called for and return.      *)
(* _continue is two steps when it asks the user: it reads the disk and     *)
(* the saved scenario, blocks in input(), and reads runhistory.json and    *)
(* stats.json only after the answer; while it waits the files on disk can  *)
(* be rewritten by the user or by an optimizer still saving.  The files    *)
(* stay in place while it waits: what load and load_json do without a file *)
(* is decided by code outside facade.py.                                   *)
(***************************************************************************)
\* Largest number of trials of a saved run.
MaxSaved == 2
\* Largest number of optimize calls on one facade.
MaxOptimize == 2
\* The run histories and the stats a run can have.
RunHistories == SUBSET (1..MaxSaved)
AllStats ==
    {st \in [submitted : 0..MaxSaved, finished : 0..MaxSaved] :
        st.finished <= st.submitted}
\* RunHistory() and Stats(scenario) of lines 85-86, and what reset leaves.
EmptyRunHistory == {}
EmptyStats == [submitted |-> 0, finished |-> 0]
\* What the user types at the prompt of line 239.
Feedbacks == {"1", "2", "q"}
\* The incumbents optimizer.run() can return; None is NoIncumbent.
Incumbents == {1, 2}
NoIncumbent == 0
\* The exceptions optimizer.run() and runhistory.get_cost can raise.
RunExceptions == {"KeyboardInterrupt", "ValueError"}
CostExceptions == {"KeyError"}

\* Mutant of previous_run_unsuccessful: any run without a finished trial.
previous_run_unfinished(stats) == stats.finished = 0

\* Line 228: the first run was not successful.
previous_run_unsuccessful(stats) == stats.submitted = 1 /\ stats.finished = 0

\* Line 216: the old run is on disk.
old_run_exists(f) ==
    f.directory_exists /\ f.runhistory_exists /\ f.stats_exists

\* Lines 207-239.  f is the facade before the call; the result is the
\* facade after _continue returned, or the facade waiting in input() of
\* line 239 with old_scenario of line 217 in hand.
continue_of(f) ==
    LET returns(rh, st, did) ==
            [f EXCEPT !.phase = "ready", !.runhistory = rh, !.stats = st,
                      !.did = did, !.outcome = [kind |-> "returns"]]
    IN IF f.overwrite THEN returns(f.runhistory, f.stats, <<>>)
       ELSE IF ~old_run_exists(f) THEN returns(f.runhistory, f.stats, <<>>)
       ELSE IF f.saved_scenario = "same"
            THEN IF previous_run_unsuccessful(f.saved_stats)
                 THEN returns(EmptyRunHistory, EmptyStats, <<"load", "reset">>)
                 ELSE returns(f.saved_runhistory, f.saved_stats, <<"load">>)
       ELSE [f EXCEPT !.phase = "asking",
                      !.old_configspace =
                          IF f.same_configspace THEN "same" ELSE "other",
                      !.did = <<"ask">>]

\* Lines 239-257, from the return of input().  f is the facade waiting in
\* input(); load_json and load read the files as they are now, and the
\* assertion of line 249 compares with old_scenario of line 217.
answer_of(f) ==
    LET returns(rh, st, did) ==
            [f EXCEPT !.phase = "ready", !.runhistory = rh, !.stats = st,
                      !.did = did, !.old_configspace = "none",
                      !.outcome = [kind |-> "returns"]]
        raises(exc, did) ==
            [f EXCEPT !.phase = "failed", !.did = did,
                      !.old_configspace = "none",
                      !.outcome = [kind |-> "raises", exc |-> exc]]
    IN IF f.feedback = "1"
       THEN returns(f.runhistory, f.stats, f.did)
       ELSE IF f.feedback = "2"
            THEN IF f.old_configspace = "same"
                 THEN returns(f.saved_runhistory, f.saved_stats,
                              Append(f.did, "load"))
                 ELSE raises("AssertionError", f.did)
       ELSE raises("RuntimeError", f.did)

\* Line 186, self.scenario.save(): the output directory exists afterwards
\* and the scenario saved in it is the current one; runhistory.json and
\* stats.json are left as they are.  It is reached when _continue returned.
scenario_save(f) ==
    IF f.outcome.kind = "returns"
    THEN [f EXCEPT !.directory_exists = TRUE,
                   !.saved_scenario = "same",
                   !.same_configspace = TRUE,
                   !.did = Append(@, "scenario.save")]
    ELSE f

\* Mutant of optimize_of: save and print only when run() returned.
optimize_of_no_finally(f, ran, cost) ==
    [f EXCEPT
        !.calls = @ + 1,
        !.did = IF ran.kind = "raises" THEN <<"run">>
                ELSE IF ran.value # NoIncumbent
                THEN <<"run", "save", "print", "get_cost">>
                ELSE <<"run", "save", "print">>,
        !.saved_runhistory = IF ran.kind = "raises" THEN @ ELSE f.runhistory,
        !.saved_stats = IF ran.kind = "raises" THEN @ ELSE f.stats,
        !.runhistory_exists = IF ran.kind = "raises" THEN @ ELSE TRUE,
        !.stats_exists = IF ran.kind = "raises" THEN @ ELSE TRUE,
        !.directory_exists = IF ran.kind = "raises" THEN @ ELSE TRUE,
        !.ran = ran,
        !.outcome = IF ran.kind = "raises" THEN ran
                    ELSE IF ran.value # NoIncumbent /\ cost.kind = "raises"
                    THEN cost
                    ELSE ran]

\* Lines 302-323.  ran is what optimizer.run() does, cost what
\* runhistory.get_cost does if it is called.  run() raises: incumbent stays
\* None, the finally block saves and prints, and the exception goes on to
\* the caller.  run() returns: save, print, and for an incumbent that is not
\* None get_cost, whose exception goes to the caller.
optimize_of(f, ran, cost) ==
    [f EXCEPT
        !.calls = @ + 1,
        !.did = IF ran.kind = "returns" /\ ran.value # NoIncumbent
                THEN <<"run", "save", "print", "get_cost">>
                ELSE <<"run", "save", "print">>,
        !.saved_runhistory = f.runhistory,
        !.saved_stats = f.stats,
        !.runhistory_exists = TRUE,
        !.stats_exists = TRUE,
        !.directory_exists = TRUE,
        !.ran = ran,
        !.outcome = IF ran.kind = "raises" THEN ran
                    ELSE IF ran.value # NoIncumbent /\ cost.kind = "raises"
                    THEN cost
                    ELSE ran]

\* The facade at line 182 of __init__: stats and run history are the empty
\* ones of lines 85-86; the output directory holds what an earlier run left.
FacadeInit ==
    /\ futures = <<>>
    /\ results = <<>>
    /\ fdone = {}
    /\ ferr = {}
    /\ key = [j \in Jobs |-> NoRunInfo]
    /\ capacity = 0
    /\ pc = "idle"
    /\ arg = NoRunInfo
    /\ nsubmitted = 0
    /\ err = "none"
    /\ log = {}
    /\ returned = <<>>
    /\ delivered = [j \in Jobs |-> 0]
    /\ lastCheck = CheckOf(0, 0)
    /\ shrunk = FALSE
    /\ waited = 0
    /\ trial = [phase |-> "none"]
    /\ outcome = [kind |-> "none"]
    /\ tell = [phase |-> "none"]
    /\ verdict = [kind |-> "none"]
    /\ imp = [phase |-> "none"]
    /\ sel = [phase |-> "none"]
    /\ ints = [phase |-> "none"]
    /\ fac \in [phase : {"constructed"},
                overwrite : BOOLEAN,
                directory_exists : BOOLEAN,
                runhistory_exists : BOOLEAN,
                stats_exists : BOOLEAN,
                saved_scenario : {"same", "other"},
                same_configspace : BOOLEAN,
                feedback : Feedbacks,
                old_configspace : {"none"},
                saved_runhistory : RunHistories,
                saved_stats : AllStats,
                runhistory : {EmptyRunHistory},
                stats : {EmptyStats},
                calls : {0},
                did : {<<>>},
                ran : {[kind |-> "none"]},
                outcome : {[kind |-> "none"]}]
    /\ fac.runhistory_exists \/ fac.stats_exists => fac.directory_exists

\* The end of __init__, lines 182-186: the call of _continue up to its
\* return or to input(), and, when it returns, the save of the scenario.
Facade_continue ==
    /\ fac.phase = "constructed"
    /\ fac' = scenario_save(continue_of(fac))
    /\ UNCHANGED poolVars
    /\ UNCHANGED runVars
    /\ UNCHANGED stopVars
    /\ UNCHANGED <<imp, sel, ints>>

\* While input() of line 239 waits: runhistory.json, stats.json or the
\* saved scenario are rewritten by someone else.
disk_changes ==
    /\ fac.phase = "asking"
    /\ \E rh \in RunHistories, st \in AllStats,
          sc \in {"same", "other"}, cs \in BOOLEAN :
           /\ <<rh, st, sc, cs>> #
                  <<fac.saved_runhistory, fac.saved_stats,
                    fac.saved_scenario, fac.same_configspace>>
           /\ fac' = [fac EXCEPT !.saved_runhistory = rh,
                                 !.saved_stats = st,
                                 !.saved_scenario = sc,
                                 !.same_configspace = cs]
    /\ UNCHANGED poolVars
    /\ UNCHANGED runVars
    /\ UNCHANGED stopVars
    /\ UNCHANGED <<imp, sel, ints>>

\* input() returns: the rest of _continue, lines 239-257, and, when it
\* returns, the save of the scenario (line 186).
Facade_answer ==
    /\ fac.phase = "asking"
    /\ fac' = scenario_save(answer_of(fac))
    /\ UNCHANGED poolVars
    /\ UNCHANGED runVars
    /\ UNCHANGED stopVars
    /\ UNCHANGED <<imp, sel, ints>>

\* What run() leaves in the run history and the stats when it submits
\* `more` more trials of which `done` finish.
after_run(f, more, done) ==
    LET n == Min(MaxSaved, f.stats.submitted + more)
    IN [f EXCEPT
           !.stats = [submitted |-> n,
                      finished |-> Min(n, f.stats.finished + done)],
           !.runhistory = @ \cup 1..Min(MaxSaved, Cardinality(@) + done)]

\* A call of optimize; run() adds trials to the run history and the stats.
optimize ==
    /\ fac.phase = "ready"
    /\ fac.calls < MaxOptimize
    /\ \E more \in 0..1, done \in 0..1 :
       \E ran \in [kind : {"returns"}, value : Incumbents \cup {NoIncumbent}]
                    \cup [kind : {"raises"}, exc : RunExceptions] :
       \E cost \in [kind : {"returns"}] \cup [kind : {"raises"}, exc : CostExceptions] :
           /\ done <= more
           /\ fac' = optimize_of(after_run(fac, more, done), ran, cost)
    /\ UNCHANGED poolVars
    /\ UNCHANGED runVars
    /\ UNCHANGED stopVars
    /\ UNCHANGED <<imp, sel, ints>>

FacadeNext ==
    \/ Facade_continue
    \/ disk_changes
    \/ Facade_answer
    \/ optimize

FacadeSpec == FacadeInit /\ [][FacadeNext]_vars

\* C38: _continue with overwrite off, the old run on disk and its scenario
\* equal to the current one loads the saved run history and stats, and
\* resets both to empty exactly when the loaded stats have one submitted
\* and no finished trial; with overwrite on nothing is loaded and both stay
\* empty.
C38_ContinueLoadsOrResets ==
    [][fac.phase = "constructed" =>
           /\ ~fac.overwrite /\ fac.directory_exists /\ fac.runhistory_exists
              /\ fac.stats_exists /\ fac.saved_scenario = "same" =>
                  /\ fac'.outcome.kind = "returns"
                  /\ fac'.did[1] = "load"
                  /\ IF fac.saved_stats = [submitted |-> 1, finished |-> 0]
                     THEN /\ fac'.runhistory = {}
                          /\ fac'.stats = [submitted |-> 0, finished |-> 0]
                     ELSE /\ fac'.runhistory = fac.saved_runhistory
                          /\ fac'.stats = fac.saved_stats
           /\ fac.overwrite =>
                  /\ fac'.outcome.kind = "returns"
                  /\ fac'.did = <<"scenario.save">>
                  /\ fac'.runhistory = {}
                  /\ fac'.stats = [submitted |-> 0, finished |-> 0]]_vars

\* C38 witness: the saved run has two submitted trials and no finished one;
\* it was loaded and kept.
C38_Witness ==
    /\ fac.phase = "ready"
    /\ fac.calls = 0
    /\ ~fac.overwrite
    /\ fac.did = <<"load", "scenario.save">>
    /\ fac.saved_stats = [submitted |-> 2, finished |-> 0]
    /\ fac.stats = fac.saved_stats
    /\ fac.runhistory = fac.saved_runhistory
    /\ fac.runhistory # {}

\* C39: every call of optimize saves the optimizer state and then prints
\* the stats, whether run() returned or raised; an exception of run()
\* reaches the caller after the save.
C39_OptimizeAlwaysSaves ==
    [][fac.phase = "ready" /\ fac'.calls = fac.calls + 1 =>
           /\ Len(fac'.did) >= 3
           /\ SubSeq(fac'.did, 1, 3) = <<"run", "save", "print">>
           /\ fac'.saved_runhistory = fac'.runhistory
           /\ fac'.saved_stats = fac'.stats
           /\ fac'.ran.kind = "raises" => fac'.outcome = fac'.ran]_vars

\* C39 witness: run() raised after a trial was submitted; the state was
\* saved and the exception reached the caller.
C39_Witness ==
    /\ fac.calls = 1
    /\ fac.ran = [kind |-> "raises", exc |-> "KeyboardInterrupt"]
    /\ fac.outcome = [kind |-> "raises", exc |-> "KeyboardInterrupt"]
    /\ fac.did = <<"run", "save", "print">>
    /\ fac.stats = [submitted |-> 1, finished |-> 0]
    /\ fac.saved_stats = fac.stats

=============================================================================
